---- MODULE Spec2Model ----
(***************************************************************************)
(* Model of mpdfm's AudioScrobbler 2.0 scrobbler (mpdfm::as20): the retry  *)
(* cache m_cache, the fail flag m_fail_flag, the scrobble requests in      *)
(* flight, the player thread running do_send_scrobble and the single       *)
(* network thread (io_context().run()) running the completion callbacks;   *)
(* and of the dispatch loop that owns the instance: its now-playing calls, *)
(* the erase of an instance whose call threw, the destruction at shutdown, *)
(* and the tracker (state_tracker) that turns player events into scrobble  *)
(* entries.                                                                *)
(*                                                                         *)
(* Every critical section of m_cache_mutex is one atomic step.  The read   *)
(* of m_fail_flag at the top of send_scrobbles_coalesced is made without   *)
(* the mutex, so on the player thread it is a step of its own, placed      *)
(* between the insert and the extraction: every value that unsynchronised  *)
(* read can yield is the value of the flag in some interleaving.           *)
(***************************************************************************)
EXTENDS Integers, Sequences, FiniteSets, Bags, TLC

(***************************************************************************)
(* Bounds of the model.                                                    *)
(***************************************************************************)
MaxTs == 2
MaxSubmits == 2
MaxStored == 0
MaxPending == 119
MaxLoopStored == 1
MaxNowPlaying == 1
MaxTime == 25
MaxDuration == 300
MaxHeard == 241
MaxEndings == 2

(***************************************************************************)
(* Program constants.                                                      *)
(***************************************************************************)
batch_size == 50
ServiceOffline == 11
TempUnavailable == 16
MaxPort == 65535
MinDuration == 30
MaxPlayed == 240

Tracks == {"a", "b"}
Timestamps == 1..MaxTs

\* scrobble_entry: the timestamp orders the cache, the track stands for the
\* remaining fields (artist, track, album, ...).
Entry(ts, tr) == [timestamp |-> ts, track |-> tr]
Entries == {Entry(ts, tr) : ts \in Timestamps, tr \in Tracks}

Range(s) == {s[k] : k \in 1..Len(s)}

(***************************************************************************)
(* The cache: std::set<scrobble_entry, internal::ts_compare>.              *)
(***************************************************************************)
\* a comparison that orders the newer entry first
ts_compare_descending(lhs, rhs) == lhs.timestamp > rhs.timestamp

ts_compare(lhs, rhs) == lhs.timestamp < rhs.timestamp

\* equivalence of two keys under the set's comparator
Equivalent(a, b) == ~ts_compare(a, b) /\ ~ts_compare(b, a)

\* std::set::count(e) != 0
Contains(c, e) == \E f \in c : Equivalent(f, e)

\* an insert that does not look for an equivalent resident element
InsertAlways(c, e) == c \cup {e}

\* std::set::insert(value): an equivalent resident element blocks the insert
Insert(c, e) == IF Contains(c, e) THEN c ELSE c \cup {e}

\* std::set::insert(first, last): the elements are inserted in order, so
\* an element is blocked by an equivalent resident element and by an
\* equivalent element earlier in the range
InsertRange(c, s) ==
    c \cup {s[k] : k \in {i \in 1..Len(s) :
                           /\ ~Contains(c, s[i])
                           /\ \A j \in 1..(i - 1) : ~Equivalent(s[j], s[i])}}

\* *m_cache.begin(): the element no other element is ordered before
Begin(c) == CHOOSE e \in c : \A f \in c : ~ts_compare(f, e)

\* the elements of c that come before e in the order of the cache
Before(c, e) == {f \in c : ts_compare(f, e)}

\* the extraction loop of send_scrobbles_coalesced: up to n elements are
\* moved from the front of the cache to the back of to_send.  Turn k of the
\* loop moves the element that k - 1 elements of the cache come before.
ExtractUncapped(c, n) ==
    [k \in 1..Cardinality(c) |->
        CHOOSE e \in c : Cardinality(Before(c, e)) = k - 1]
ExtractBatch(c, n) ==
    [k \in 1..(IF n < Cardinality(c) THEN n ELSE Cardinality(c)) |->
        CHOOSE e \in c : Cardinality(Before(c, e)) = k - 1]

\* lines 310-313: turn i of the extraction loop, counted from 0, gives the
\* request the parameter "timestamp[i]" of the element it moved to to_send
TimestampParams(to_send) ==
    [i \in 0..(Len(to_send) - 1) |-> to_send[i + 1].timestamp]

\* the cache the extraction loop leaves behind
Remaining(c, batch) == c \ Range(batch)

(***************************************************************************)
(* The target URI and the synchronous failures of building and starting a  *)
(* request.                                                                *)
(***************************************************************************)
\* a scheme is the sequence of its characters
https == <<"h", "t", "t", "p", "s">>
http == <<"h", "t", "t", "p">>
ftp == <<"f", "t", "p">>

Targets ==
    { [scheme |-> https, is_ip |-> FALSE, port |-> -1],
      [scheme |-> http,  is_ip |-> TRUE,  port |-> 99999],
      [scheme |-> ftp,   is_ip |-> FALSE, port |-> -1] }

\* std::tolower, for the letters of the schemes compared here
UpperCase == <<"F", "H", "P", "S", "T", "X">>
LowerCase == <<"f", "h", "p", "s", "t", "x">>
tolower(c) ==
    IF \E i \in 1..Len(UpperCase) : UpperCase[i] = c
    THEN LowerCase[CHOOSE i \in 1..Len(UpperCase) : UpperCase[i] = c]
    ELSE c

\* std::equal over the two ranges: the same length and, place by place, the
\* same character once lowered
streq_insensitive(a, b) ==
    /\ Len(a) = Len(b)
    /\ \A i \in 1..Len(a) : tolower(a[i]) = tolower(b[i])

\* get_proto that takes http for any scheme that is not https
get_proto_fallback(uri) ==
    IF streq_insensitive(uri.scheme, https) THEN "https" ELSE "http"

\* get_proto: "https", "http", or the 'unsupported protocol' exception
get_proto(uri) ==
    IF streq_insensitive(uri.scheme, https) THEN "https"
    ELSE IF streq_insensitive(uri.scheme, http) THEN "http"
    ELSE "throw"

default_port(proto) == IF proto = "https" THEN 443 ELSE 80

\* http_request::run up to the first asynchronous operation: FALSE when it
\* throws 'port parse failed' (std::from_chars into an unsigned short)
run_starts(uri) ==
    LET port == IF uri.port = -1 THEN default_port(get_proto(uri))
                ELSE uri.port
    IN  uri.is_ip => port <= MaxPort

\* http_request::make followed by run returns normally
RequestStarts(uri) == get_proto(uri) # "throw" /\ run_starts(uri)

(***************************************************************************)
(* Responses and their classification by the completion callback.          *)
(***************************************************************************)
Stages == {"resolve", "connect", "handshake", "write", "read"}
ErrorCodes == {0, 9, ServiceOffline, TempUnavailable}

\* ec: "none" or the stage that failed; parses: the body converts to a
\* response; message, error: the fields of the response
Response(ec, parses, message, error) ==
    [ec |-> ec, parses |-> parses, message |-> message, error |-> error]

Responses ==
    {Response(st, FALSE, "", 0) : st \in Stages}
    \cup {Response("none", FALSE, "", 0)}
    \cup {Response("none", TRUE, m, e) : m \in {"", "failed"}, e \in ErrorCodes}

ClassifyConfirmRecoverable(r) ==
    IF r.ec # "none" THEN "transport"
    ELSE IF ~r.parses THEN "parse_error"
    ELSE IF r.message = "" THEN "recoverable"
    ELSE IF r.error \in {ServiceOffline, TempUnavailable} THEN "recoverable"
    ELSE "fatal"
ClassifyParseFatal(r) ==
    IF r.ec # "none" THEN "transport"
    ELSE IF ~r.parses THEN "fatal"
    ELSE IF r.message = "" THEN "confirm"
    ELSE IF r.error \in {ServiceOffline, TempUnavailable} THEN "recoverable"
    ELSE "fatal"
ClassifyNoFatal(r) ==
    IF r.ec # "none" THEN "transport"
    ELSE IF ~r.parses THEN "parse_error"
    ELSE IF r.message = "" THEN "confirm"
    ELSE "recoverable"
ClassifyOfflineFatal(r) ==
    IF r.ec # "none" THEN "transport"
    ELSE IF ~r.parses THEN "parse_error"
    ELSE IF r.message = "" THEN "confirm"
    ELSE IF r.error = TempUnavailable THEN "recoverable"
    ELSE "fatal"
ClassifyTransportFatal(r) ==
    IF r.ec # "none" THEN "fatal"
    ELSE IF ~r.parses THEN "parse_error"
    ELSE IF r.message = "" THEN "confirm"
    ELSE IF r.error \in {ServiceOffline, TempUnavailable} THEN "recoverable"
    ELSE "fatal"
Classify(r) ==
    IF r.ec # "none" THEN "transport"
    ELSE IF ~r.parses THEN "parse_error"
    ELSE IF r.message = "" THEN "confirm"
    ELSE IF r.error \in {ServiceOffline, TempUnavailable} THEN "recoverable"
    ELSE "fatal"

(***************************************************************************)
(* State.                                                                  *)
(***************************************************************************)
VARIABLES
    m_target,       \* as20::m_target
    m_cache,        \* as20::m_cache
    m_fail_flag,    \* as20::m_fail_flag
    inflight,       \* bag of the to_send of every request started, not completed
    pl_pc,          \* player thread: "idle", "inserted", "checked"
    pl_poisoned,    \* m_fail_flag when the last do_send_scrobble began
    net_pc,         \* network thread: "idle", "reinsert"
    net_batch,      \* to_send of the callback that is between its two locks
    net_resp,       \* the response that callback was given
    ev,             \* the last step taken: [kind, batch, response, started]
    submitted,      \* entries loaded from the store or given to do_send_scrobble
    confirmed,      \* entries of the batches the remote confirmed
    fatal_count,    \* responses classified fatal so far
    submits,        \* calls of do_send_scrobble so far
    alive,          \* the instance is constructed and not destroyed
    m_path,         \* as20::m_path
    store,          \* what the destructor wrote to m_path
    in_loop,        \* the instance is in the scrobbler_vec of the dispatch loop
    np_inflight,    \* now-playing requests started and not completed
    tr_pc,          \* run_scrobblers: "start", "running", "crashed"
    last,           \* the state_tracker of run_scrobblers
    now,            \* time(nullptr)
    reported,       \* the last status read said PLAY, with the tracked song
    heard,          \* seconds the tracked song was reported playing
    tev,            \* the last step of run_scrobblers
    endings,        \* times the track-ended task ran for the tracked song
    main_pc,        \* main: where the player thread is in main
    sections,       \* cfg.sections() not yet visited by main
    scrobblers,     \* the scrobbler_vec of main
    tasks,          \* tasks the current call of the dispatch loop has to run
    iter,           \* run_scrobbler_task: the iterator i
    interrupted,    \* the flag 'interrupted'
    signals,        \* the signal_set of run_scrobblers and its handler
    poisoned,       \* instances whose fail flag a callback has set
    pending,        \* network operations started and not completed
    hung,           \* network operations that never complete
    events,         \* player events returned by run_idle_mask so far
    exit_code,      \* the value main returned
    failures,       \* bag of the instances whose calls have thrown
    mev,            \* the last step of main
    current_song,   \* the song run_current_song gave the dispatch loop
    http_uri,       \* http_request::m_uri
    http_pc,        \* the request: not made, made, at a stage, done, thrown
    http_proto,     \* http_request::m_proto
    http_started,   \* the stages of the request started so far, in order
    http_callback,  \* the error codes m_callback was called with, in order
    inserts,        \* per request, the assignments req[key] = value to come
    m_params,       \* per request, audioscrobbler_request::m_params
    m_api_secret,   \* audioscrobbler_request::m_api_secret
    body,           \* per request, what form() returned
    m_cache_mutex,  \* as20::m_cache_mutex: the thread that holds it
    sending         \* per thread, the to_send of send_scrobbles_coalesced

vars == <<m_target, m_cache, m_fail_flag, inflight, pl_pc, pl_poisoned,
          net_pc, net_batch, net_resp, ev, submitted, confirmed, fatal_count,
          submits, alive, m_path, store, in_loop, np_inflight,
          tr_pc, last, now, reported, heard, tev, endings,
          main_pc, sections, scrobblers, tasks, iter, interrupted, signals,
          poisoned, pending, hung, events, exit_code, failures, mev,
          current_song, http_uri, http_pc, http_proto, http_started, http_callback,
          inserts, m_params, m_api_secret, body, m_cache_mutex, sending>>

\* the instance
as20vars == <<m_target, m_cache, m_fail_flag, inflight, pl_pc, pl_poisoned,
              net_pc, net_batch, net_resp, ev, submitted, confirmed,
              fatal_count, submits, alive, m_path, store, in_loop,
              np_inflight>>

\* the tracker of the dispatch loop and its clock
trvars == <<tr_pc, last, now, reported, heard, tev, endings>>

\* main, its scrobbler_vec and the dispatch loop over it
mainvars == <<main_pc, sections, scrobblers, tasks, iter, interrupted,
              signals, poisoned, pending, hung, events, exit_code, failures, mev,
              current_song>>

\* a request of the http client
reqvars == <<http_uri, http_pc, http_proto, http_started, http_callback>>

\* the requests being signed
signvars == <<inserts, m_params, m_api_secret, body>>

\* the mutex of the instance and the batches taken under it
lockvars == <<m_cache_mutex, sending>>

\* what the instance and the tracker leave alone
othervars == <<mainvars, reqvars, signvars, lockvars>>

\* what main leaves alone
notmainvars == <<as20vars, trvars, reqvars, signvars, lockvars>>

\* the instance's life, its store and its now-playing requests
lifevars == <<alive, m_path, store, in_loop, np_inflight>>

\* where the player thread is once a call on the instance has thrown: in
\* run_scrobbler_task the exception is caught and the instance is erased
\* (pl_pc = "threw" until then); any other caller is taken to go on
Thrown == IF in_loop THEN "threw" ELSE "idle"

\* the value of the response field of a step that is not a callback
NoResponse == Response("unset", FALSE, "", 0)

\* kind: the step; batch: the to_send the step is about; response: what a
\* callback was given; started: the to_send of the request the step started,
\* <<>> when it started none
Event(kind, batch, response, started) ==
    [kind |-> kind, batch |-> batch, response |-> response,
     started |-> started]

\* the requests in flight once the request carrying batch is started
Started(flying, batch) == flying (+) SetToBag({batch})

\* the requests in flight once the request carrying batch has completed
Completed(flying, batch) == flying (-) SetToBag({batch})

(***************************************************************************)
(* The dispatch loop's tracker: state_tracker, config_file.cpp lines       *)
(* 436-474, and the songs and status snapshots it is given.                *)
(***************************************************************************)
\* mpdfm::song: the id identifies the song; NoSong is song { nullptr }
Song(id, duration) == [id |-> id, duration |-> duration]
NoSong == Song(0, 0)
Songs == {Song(1, 40), Song(2, 300), Song(3, 20)}

\* value of time(nullptr) when run_scrobblers begins, seconds since the epoch
StartTime == 1000

\* seconds between two readings of the clock
Ticks == {5}

\* mpd_status_get_elapsed_time of the status read at startup
StartPositions == {0, 10}

\* mpd_status_get_state
PlayerStates == {"play", "pause", "stop"}

\* the members of a new state_tracker
state_tracker ==
    [m_song |-> NoSong, m_start |-> 0, m_last_play |-> 0, m_elapsed |-> 0,
     m_paused |-> FALSE]

pause(t, time) ==
    IF ~t.m_paused
    THEN [t EXCEPT !.m_paused = TRUE,
                   !.m_elapsed = @ + (time - t.m_last_play)]
    ELSE t

play(t, time) ==
    IF t.m_paused
    THEN [t EXCEPT !.m_paused = FALSE, !.m_last_play = time]
    ELSE t

new_song(t, song, time) ==
    play([t EXCEPT !.m_song = song, !.m_start = time, !.m_elapsed = 0,
                   !.m_last_play = 0],
         time)

set_elapsed(t, elapsed) == [t EXCEPT !.m_elapsed = elapsed]

\* song::operator bool and song::operator==, config_file.cpp lines 359-369
HasSong(song) == song.id # NoSong.id
SongEquals(a, b) == (HasSong(a) = HasSong(b)) /\ a.id = b.id

\* scrobble_entry built from a song (scrobbler.cpp line 38), with the
\* timestamp and elapsed the tracker gives it
TrackEntry(song, timestamp, elapsed) ==
    [track |-> song.id, duration |-> song.duration, timestamp |-> timestamp,
     elapsed |-> elapsed]
NoEntry == TrackEntry(NoSong, 0, 0)

Min(a, b) == IF a < b THEN a ELSE b

\* as20::do_check_preconditions, as20.cpp lines 244-247.  The duration is
\* the unsigned of song::duration, so half of it is below 2^31 and its
\* conversion to the unsigned of std::min<unsigned> keeps the value.
do_check_preconditions_inclusive(s) ==
    LET played == Min(MaxPlayed, s.duration \div 2)
    IN  s.duration > MinDuration /\ s.elapsed >= played
do_check_preconditions(s) ==
    LET played == Min(MaxPlayed, s.duration \div 2)
    IN  s.duration > MinDuration /\ s.elapsed > played

\* the task of handle_player_event, config_file.cpp lines 496-500:
\* scrobble(scr) is called when check_preconditions(scr) holds
HandedAlways(scr) == TRUE
Handed(scr) == do_check_preconditions(scr)

\* the step of run_scrobblers last taken.  ended: a track ended in it; scr:
\* the entry of that track; handed: scr was given to scrobble(); played:
\* the seconds that track was reported playing; position: the elapsed time
\* of the status read at startup; now_playing: now_playing() was called
TrackerEvent(kind, ended, scr, handed, played, position, now_playing) ==
    [kind |-> kind, ended |-> ended, scr |-> scr, handed |-> handed,
     played |-> played, position |-> position, now_playing |-> now_playing]

\* run_scrobblers has not begun
NoTracker ==
    /\ tr_pc = "start"
    /\ last = state_tracker
    /\ now = StartTime
    /\ reported = FALSE
    /\ heard = 0
    /\ tev = TrackerEvent("init", FALSE, NoEntry, FALSE, 0, 0, FALSE)
    /\ endings = 0

\* the last step of main: kind, the instance or section concerned, and
\* whether the call or construction threw
MainEvent(kind, id, threw) == [kind |-> kind, id |-> id, threw |-> threw]

\* main has not returned
NoExitCode == -1

\* main has not begun
NoMain ==
    /\ main_pc = "start"
    /\ sections = <<>>
    /\ scrobblers = <<>>
    /\ tasks = <<>>
    /\ iter = 1
    /\ interrupted = FALSE
    /\ signals = "none"
    /\ poisoned = {}
    /\ pending = EmptyBag
    /\ hung = 0
    /\ events = 0
    /\ exit_code = NoExitCode
    /\ failures = EmptyBag
    /\ mev = MainEvent("init", 0, FALSE)
    /\ current_song = NoSong

\* no request has been made
NoRequest ==
    /\ http_uri = CHOOSE uri \in Targets : TRUE
    /\ http_pc = "none"
    /\ http_proto = "none"
    /\ http_started = <<>>
    /\ http_callback = <<>>

\* no request is being signed
NoSign ==
    /\ inserts = <<>>
    /\ m_params = <<>>
    /\ m_api_secret = <<>>
    /\ body = <<>>

\* the mutex is not held
NoLock ==
    /\ m_cache_mutex = "free"
    /\ sending = [t \in {"player", "network"} |-> <<>>]

\* the parts of the program a specification does not run
Unused == NoMain /\ NoRequest /\ NoSign /\ NoLock

(***************************************************************************)
(* as20::as20: the cache is read from the store; a missing or corrupt      *)
(* store leaves it empty.                                                  *)
(***************************************************************************)
StoreFile(readable, entries) == [readable |-> readable, entries |-> entries]

LoadCache(file) ==
    IF file.readable THEN InsertRange({}, file.entries) ELSE {}

RECURSIVE SeqsUpTo(_, _)
SeqsUpTo(S, n) ==
    IF n = 0 THEN {<<>>}
    ELSE LET shorter == SeqsUpTo(S, n - 1)
         IN  shorter \cup {Append(s, e) : s \in shorter, e \in S}

StoreFiles ==
    {StoreFile(FALSE, <<>>)}
    \cup {StoreFile(TRUE, s) : s \in SeqsUpTo(Entries, MaxStored)}

\* the section's store key: a path, or "" when the key is absent
StorePath == "store"
NoStorePath == ""

\* lines 216-219: the store is read only when m_path is not empty
LoadStore(path, stored) == IF path = NoStorePath THEN {} ELSE LoadCache(stored)

\* lines 220-225: parse_file or the conversion threw, the error is logged
\* ('couldnt read cache (ignoring)') and the constructor returns normally
ReadFails(path, stored) == path # NoStorePath /\ ~stored.readable

\* the destructor's output: nothing yet, or the entries it wrote
NotWritten == [written |-> FALSE, entries |-> <<>>]
Written(entries) == [written |-> TRUE, entries |-> entries]

Construct(uri, path, stored, loop) ==
    /\ m_target = uri
    /\ m_path = path
    /\ store = NotWritten
    /\ alive = TRUE
    /\ in_loop = loop
    /\ np_inflight = 0
    /\ m_cache = LoadStore(path, stored)
    /\ m_fail_flag = FALSE
    /\ inflight = EmptyBag
    /\ pl_pc = "idle"
    /\ pl_poisoned = FALSE
    /\ net_pc = "idle"
    /\ net_batch = <<>>
    /\ net_resp = NoResponse
    /\ ev = Event(IF ReadFails(path, stored) THEN "init_ignored" ELSE "init",
                  <<>>, NoResponse, <<>>)
    /\ submitted = LoadStore(path, stored)
    /\ confirmed = {}
    /\ fatal_count = 0
    /\ submits = 0

Init ==
    \E uri \in Targets, stored \in StoreFiles :
        Construct(uri, StorePath, stored, FALSE) /\ NoTracker /\ Unused

(***************************************************************************)
(* Player thread: do_send_scrobble.                                        *)
(***************************************************************************)
\* a do_send_scrobble that tests m_fail_flag before it inserts
do_send_scrobble_tested_first(s) ==
    /\ alive
    /\ pl_pc = "idle"
    /\ pl_poisoned' = m_fail_flag
    /\ UNCHANGED <<lifevars, trvars, othervars>>
    /\ IF m_fail_flag
       THEN /\ pl_pc' = Thrown
            /\ UNCHANGED m_cache
            /\ ev' = Event("previously_failed", <<s>>, NoResponse, <<>>)
       ELSE /\ pl_pc' = "inserted"
            /\ m_cache' = Insert(m_cache, s)
            /\ ev' = Event("insert", <<s>>, NoResponse, <<>>)
    /\ submitted' = submitted \cup {s}
    /\ submits' = submits + 1
    /\ UNCHANGED <<m_target, m_fail_flag, inflight, net_pc, net_batch,
                   net_resp, confirmed, fatal_count>>

\* lines 282-285: lock, m_cache.insert(s), unlock
do_send_scrobble(s) ==
    /\ alive
    /\ pl_pc = "idle"
    /\ pl_pc' = "inserted"
    /\ pl_poisoned' = m_fail_flag
    /\ UNCHANGED <<lifevars, trvars, othervars>>
    /\ m_cache' = Insert(m_cache, s)
    /\ submitted' = submitted \cup {s}
    /\ submits' = submits + 1
    /\ ev' = Event("insert", <<s>>, NoResponse, <<>>)
    /\ UNCHANGED <<m_target, m_fail_flag, inflight, net_pc, net_batch,
                   net_resp, confirmed, fatal_count>>

Submit == \E s \in Entries : submits < MaxSubmits /\ do_send_scrobble(s)

\* lines 291-293: the unlocked test of m_fail_flag
CheckFailFlagSkipped ==
    /\ pl_pc = "inserted"
    /\ pl_pc' = "checked"
    /\ ev' = Event("checked", <<>>, NoResponse, <<>>)
    /\ UNCHANGED <<lifevars, trvars, othervars>>
    /\ UNCHANGED <<m_target, m_cache, m_fail_flag, inflight, pl_poisoned,
                   net_pc, net_batch, net_resp, submitted, confirmed,
                   fatal_count, submits>>
CheckFailFlag ==
    /\ pl_pc = "inserted"
    /\ IF m_fail_flag
       THEN /\ pl_pc' = Thrown
            /\ ev' = Event("previously_failed", <<>>, NoResponse, <<>>)
       ELSE /\ pl_pc' = "checked"
            /\ ev' = Event("checked", <<>>, NoResponse, <<>>)
    /\ UNCHANGED <<lifevars, trvars, othervars>>
    /\ UNCHANGED <<m_target, m_cache, m_fail_flag, inflight, pl_poisoned,
                   net_pc, net_batch, net_resp, submitted, confirmed,
                   fatal_count, submits>>

\* lines 294-323: lock, return on an empty cache, extract the batch, build
\* the request and start it; the lock is released when the function is left,
\* by return or by exception.  flying: the requests in flight before the
\* call; returned, started, threw: the kind of step to record for each way
\* out; batch, response: what the calling step is about.
send_scrobbles_coalesced(flying, returned, started, threw, batch, response) ==
    IF m_cache = {}
    THEN /\ ev' = Event(returned, batch, response, <<>>)
         /\ inflight' = flying
         /\ UNCHANGED m_cache
    ELSE LET to_send == ExtractBatch(m_cache, batch_size)
         IN  /\ m_cache' = Remaining(m_cache, to_send)
             /\ IF RequestStarts(m_target)
                THEN /\ inflight' = Started(flying, to_send)
                     /\ ev' = Event(started, batch, response, to_send)
                ELSE /\ inflight' = flying
                     /\ ev' = Event(threw, batch, response, <<>>)

Dispatch ==
    /\ pl_pc = "checked"
    /\ send_scrobbles_coalesced(inflight, "noop", "dispatch", "sync_throw",
                                <<>>, NoResponse)
    /\ pl_pc' = IF ev'.kind = "sync_throw" THEN Thrown ELSE "idle"
    /\ UNCHANGED <<lifevars, trvars, othervars>>
    /\ UNCHANGED <<m_target, m_fail_flag, pl_poisoned, net_pc, net_batch,
                   net_resp, submitted, confirmed, fatal_count, submits>>

(***************************************************************************)
(* Network thread: the completion callback of a scrobble request, lines    *)
(* 323-361.  Callbacks run one at a time on the thread of io_context.      *)
(***************************************************************************)
\* the callback of a confirmation that does not go on with the drain
CallbackConfirmOnce(to_send, r) ==
    /\ alive
    /\ net_pc = "idle"
    /\ UNCHANGED <<lifevars, trvars, othervars>>
    /\ Classify(r) = "confirm"
    /\ confirmed' = confirmed \cup Range(to_send)
    /\ ev' = Event("callback", to_send, r, <<>>)
    /\ inflight' = Completed(inflight, to_send)
    /\ UNCHANGED <<m_target, m_cache, m_fail_flag, pl_pc, pl_poisoned, net_pc,
                   net_batch, net_resp, submitted, fatal_count, submits>>

\* empty message: the batch is dropped and the drain continues (lines
\* 346-353); an exception of the continued drain is swallowed
CallbackConfirm(to_send, r) ==
    /\ alive
    /\ net_pc = "idle"
    /\ UNCHANGED <<lifevars, trvars, othervars>>
    /\ Classify(r) = "confirm"
    /\ confirmed' = confirmed \cup Range(to_send)
    /\ IF m_fail_flag
       THEN /\ ev' = Event("callback", to_send, r, <<>>)
            /\ inflight' = Completed(inflight, to_send)
            /\ UNCHANGED m_cache
       ELSE send_scrobbles_coalesced(Completed(inflight, to_send),
                                     "callback", "callback", "callback",
                                     to_send, r)
    /\ UNCHANGED <<m_target, m_fail_flag, pl_pc, pl_poisoned, net_pc,
                   net_batch, net_resp, submitted, fatal_count, submits>>

\* transport error, unparsable body, error 11 or 16: the exception reaches
\* the handler, which locks and re-inserts the batch (lines 354-360)
CallbackFailure(to_send, r) ==
    /\ alive
    /\ net_pc = "idle"
    /\ UNCHANGED <<lifevars, trvars, othervars>>
    /\ Classify(r) \in {"transport", "parse_error", "recoverable"}
    /\ inflight' = Completed(inflight, to_send)
    /\ m_cache' = InsertRange(m_cache, to_send)
    /\ ev' = Event("callback", to_send, r, <<>>)
    /\ UNCHANGED <<m_target, m_fail_flag, pl_pc, pl_poisoned, net_pc,
                   net_batch, net_resp, submitted, confirmed, fatal_count,
                   submits>>

\* any other error code: lock, m_fail_flag = true, unlock (lines 333-336),
\* then the exception is thrown
CallbackFatal(to_send, r) ==
    /\ alive
    /\ net_pc = "idle"
    /\ UNCHANGED <<lifevars, trvars, othervars>>
    /\ Classify(r) = "fatal"
    /\ inflight' = Completed(inflight, to_send)
    /\ m_fail_flag' = TRUE
    /\ fatal_count' = fatal_count + 1
    /\ net_pc' = "reinsert"
    /\ net_batch' = to_send
    /\ net_resp' = r
    /\ ev' = Event("callback", to_send, r, <<>>)
    /\ UNCHANGED <<m_target, m_cache, pl_pc, pl_poisoned, submitted,
                   confirmed, submits>>

\* a handler that re-inserts the batch and takes the instance as healthy
\* again
CallbackReinsertClears ==
    /\ alive
    /\ net_pc = "reinsert"
    /\ UNCHANGED <<lifevars, trvars, othervars>>
    /\ net_pc' = "idle"
    /\ m_cache' = InsertRange(m_cache, net_batch)
    /\ m_fail_flag' = FALSE
    /\ net_batch' = <<>>
    /\ net_resp' = NoResponse
    /\ ev' = Event("reinsert", net_batch, net_resp, <<>>)
    /\ UNCHANGED <<m_target, inflight, pl_pc, pl_poisoned,
                   submitted, confirmed, fatal_count, submits>>

\* the handler of that exception: lock, re-insert the batch, unlock
CallbackReinsert ==
    /\ alive
    /\ net_pc = "reinsert"
    /\ UNCHANGED <<lifevars, trvars, othervars>>
    /\ net_pc' = "idle"
    /\ m_cache' = InsertRange(m_cache, net_batch)
    /\ net_batch' = <<>>
    /\ net_resp' = NoResponse
    /\ ev' = Event("reinsert", net_batch, net_resp, <<>>)
    /\ UNCHANGED <<m_target, m_fail_flag, inflight, pl_pc, pl_poisoned,
                   submitted, confirmed, fatal_count, submits>>

Confirmed ==
    \E b \in BagToSet(inflight), r \in Responses : CallbackConfirm(b, r)
Failed ==
    \E b \in BagToSet(inflight), r \in Responses : CallbackFailure(b, r)
FailedFatally ==
    \E b \in BagToSet(inflight), r \in Responses : CallbackFatal(b, r)

Next ==
    \/ Submit
    \/ CheckFailFlag
    \/ Dispatch
    \/ Confirmed
    \/ Failed
    \/ FailedFatally
    \/ CallbackReinsert

Spec == Init /\ [][Next]_vars

(***************************************************************************)
(* A drain of a large store: the cache is loaded with up to MaxPending     *)
(* entries, one scrobble is submitted and the remote confirms every        *)
(* request.                                                                *)
(***************************************************************************)
StoredRun(n) == StoreFile(TRUE, [k \in 1..n |-> Entry(k, "a")])

InitDrain ==
    \E uri \in Targets, n \in 0..MaxPending :
        Construct(uri, StorePath, StoredRun(n), FALSE) /\ NoTracker /\ Unused

DrainSubmit ==
    /\ submits < 1
    /\ do_send_scrobble(Entry(Cardinality(m_cache) + 1, "a"))

DrainConfirm ==
    \E b \in BagToSet(inflight) :
        CallbackConfirm(b, Response("none", TRUE, "", 0))

NextDrain ==
    \/ DrainSubmit
    \/ CheckFailFlag
    \/ Dispatch
    \/ DrainConfirm

SpecDrain == InitDrain /\ [][NextDrain]_vars

\* the drain with both threads scheduled: the player thread goes on with
\* the call it is in, and the network thread runs the callback of a request
\* the remote has confirmed
SpecDrainLive ==
    /\ InitDrain
    /\ [][NextDrain]_vars
    /\ WF_vars(CheckFailFlag \/ Dispatch)
    /\ WF_vars(DrainConfirm)

(***************************************************************************)
(* The instance as the dispatch loop drives it: the timestamp of a scrobble *)
(* is the time its track began (config_file.cpp line 493), so every call   *)
(* of do_send_scrobble carries a timestamp no smaller than the ones before. *)
(***************************************************************************)
OrderedSubmit ==
    \E s \in Entries :
        /\ submits < MaxSubmits
        /\ \A f \in submitted : f.timestamp <= s.timestamp
        /\ do_send_scrobble(s)

NextOrdered ==
    \/ OrderedSubmit
    \/ CheckFailFlag
    \/ Dispatch
    \/ Confirmed
    \/ Failed
    \/ FailedFatally
    \/ CallbackReinsert

SpecOrdered == Init /\ [][NextOrdered]_vars

(***************************************************************************)
(* The instance in the scrobbler_vec of the dispatch loop: now-playing     *)
(* calls, the erase of run_scrobbler_task after a call has thrown, and the *)
(* destruction of the vector when main leaves its block.  The network      *)
(* thread is joined after that, so completions still arrive for a          *)
(* destroyed instance.                                                     *)
(***************************************************************************)
StatusCodes == {199, 200, 299, 300}

\* what the completion callback of a now-playing request is given: the
\* error code of the stage that failed and the status of the response
NpResponse(ec, status) == [ec |-> ec, status |-> status]
NpResponses ==
    {NpResponse(ec, 0) : ec \in Stages}
    \cup {NpResponse("none", st) : st \in StatusCodes}

\* lines 268-278: the callback logs a transport error or a status outside
\* 200..299
NpLogged(r) == r.ec # "none" \/ r.status < 200 \/ r.status > 299

\* as20::do_send_now_playing, lines 249-279
do_send_now_playing_draining(s) ==
    /\ alive
    /\ pl_pc = "idle"
    /\ IF m_fail_flag
       THEN /\ pl_pc' = Thrown
            /\ ev' = Event("np_previously_failed", <<s>>, NoResponse, <<>>)
            /\ UNCHANGED <<np_inflight, m_cache, inflight>>
       ELSE IF ~RequestStarts(m_target)
       THEN /\ pl_pc' = Thrown
            /\ ev' = Event("np_sync_throw", <<s>>, NoResponse, <<>>)
            /\ UNCHANGED <<np_inflight, m_cache, inflight>>
       ELSE /\ pl_pc' = "idle"
            /\ np_inflight' = np_inflight + 1
            /\ send_scrobbles_coalesced(inflight, "now_playing",
                                        "now_playing", "now_playing",
                                        <<s>>, NoResponse)
    /\ UNCHANGED <<m_target, m_fail_flag, pl_poisoned, net_pc,
                   net_batch, net_resp, submitted, confirmed, fatal_count,
                   submits, alive, m_path, store, in_loop,
                   trvars, othervars>>
do_send_now_playing(s) ==
    /\ alive
    /\ pl_pc = "idle"
    /\ IF m_fail_flag
       THEN /\ pl_pc' = Thrown
            /\ ev' = Event("np_previously_failed", <<s>>, NoResponse, <<>>)
            /\ UNCHANGED np_inflight
       ELSE IF ~RequestStarts(m_target)
       THEN /\ pl_pc' = Thrown
            /\ ev' = Event("np_sync_throw", <<s>>, NoResponse, <<>>)
            /\ UNCHANGED np_inflight
       ELSE /\ pl_pc' = "idle"
            /\ np_inflight' = np_inflight + 1
            /\ ev' = Event("now_playing", <<s>>, NoResponse, <<>>)
    /\ UNCHANGED <<m_target, m_cache, m_fail_flag, inflight, pl_poisoned, net_pc,
                   net_batch, net_resp, submitted, confirmed, fatal_count,
                   submits, alive, m_path, store, in_loop,
                   trvars, othervars>>

\* the completion callback of a now-playing request, lines 268-278: it
\* captures nothing of the instance and only logs
NowPlayingCallback(r) ==
    /\ np_inflight > 0
    /\ net_pc = "idle"
    /\ np_inflight' = np_inflight - 1
    /\ ev' = Event("np_callback", <<>>, r, <<>>)
    /\ UNCHANGED <<m_target, m_cache, m_fail_flag, inflight, pl_pc,
                   pl_poisoned, net_pc, net_batch, net_resp, submitted,
                   confirmed, fatal_count, submits, alive, m_path, store,
                   in_loop,
                   trvars, othervars>>

\* tao::json::value(m_cache) written by to_stream: the array of the entries
\* in the order of the set
Serialize(c) == ExtractBatch(c, Cardinality(c))

\* as20::~as20, lines 228-242, run by the player thread: nothing is written
\* without a path; an ofstream that is not good, or an exception of
\* to_stream, is logged and the destructor returns
DestructorRethrows(kind) ==
    /\ alive
    /\ alive' = FALSE
    /\ ev' = Event(kind, <<>>, NoResponse, <<>>)
    /\ \E writable \in BOOLEAN :
          IF m_path = NoStorePath
          THEN pl_pc' = "idle" /\ UNCHANGED store
          ELSE IF writable
          THEN pl_pc' = "idle" /\ store' = Written(Serialize(m_cache))
          ELSE pl_pc' = "terminated" /\ UNCHANGED store
    /\ UNCHANGED <<m_target, m_cache, m_fail_flag, inflight, pl_poisoned,
                   net_pc, net_batch, net_resp, submitted, confirmed,
                   fatal_count, submits, m_path, in_loop, np_inflight,
                   trvars, othervars>>
Destructor(kind) ==
    /\ alive
    /\ alive' = FALSE
    /\ pl_pc' = "idle"
    /\ ev' = Event(kind, <<>>, NoResponse, <<>>)
    /\ \E writable \in BOOLEAN :
          IF m_path # NoStorePath /\ writable
          THEN store' = Written(Serialize(m_cache))
          ELSE UNCHANGED store
    /\ UNCHANGED <<m_target, m_cache, m_fail_flag, inflight, pl_poisoned,
                   net_pc, net_batch, net_resp, submitted, confirmed,
                   fatal_count, submits, m_path, in_loop, np_inflight,
                   trvars, othervars>>

\* run_scrobbler_task, config_file.cpp lines 426-429: the exception of a
\* task is caught and the instance is erased from the vector
Erase == pl_pc = "threw" /\ Destructor("erased")

\* main, config_file.cpp lines 643-656: run_scrobblers has returned and the
\* vector goes out of scope
Shutdown == pl_pc = "idle" /\ Destructor("shutdown")

\* a scrobble request completes after the instance was destroyed: its
\* callback holds the dangling this (as20.cpp line 323); what it does to the
\* freed object is not defined, the store file is written already
CallbackDestroyed ==
    \E b \in BagToSet(inflight), r \in Responses :
        /\ ~alive
        /\ inflight' = Completed(inflight, b)
        /\ ev' = Event("callback_destroyed", b, r, <<>>)
        /\ UNCHANGED <<m_target, m_cache, m_fail_flag, pl_pc, pl_poisoned,
                       net_pc, net_batch, net_resp, submitted, confirmed,
                       fatal_count, submits, alive, m_path, store, in_loop,
                       np_inflight,
                       trvars, othervars>>

\* the second critical section of a fatal callback (lines 354-360) entered
\* after the instance was destroyed
ReinsertDestroyed ==
    /\ ~alive
    /\ net_pc = "reinsert"
    /\ net_pc' = "idle"
    /\ net_batch' = <<>>
    /\ net_resp' = NoResponse
    /\ ev' = Event("callback_destroyed", net_batch, net_resp, <<>>)
    /\ UNCHANGED <<m_target, m_cache, m_fail_flag, inflight, pl_pc,
                   pl_poisoned, submitted, confirmed, fatal_count, submits,
                   alive, m_path, store, in_loop, np_inflight,
                   trvars, othervars>>

LoopEntries == {Entry(ts, "a") : ts \in Timestamps}

LoopStoreFiles ==
    {StoreFile(rd, s) : rd \in BOOLEAN, s \in SeqsUpTo(LoopEntries, MaxLoopStored)}

InitLoop ==
    \E uri \in Targets, path \in {StorePath, NoStorePath},
       stored \in LoopStoreFiles :
        Construct(uri, path, stored, TRUE) /\ NoTracker /\ Unused

\* handle_player_event, config_file.cpp lines 490-501: the scrobble of the
\* track that ended
LoopScrobble ==
    \E s \in LoopEntries :
        /\ submits < MaxSubmits
        /\ \A f \in submitted : f.timestamp <= s.timestamp
        /\ do_send_scrobble(s)

\* config_file.cpp lines 503-509 and 546-550: the now-playing call for the
\* track that began
NowPlaying ==
    \E s \in LoopEntries :
        np_inflight < MaxNowPlaying /\ do_send_now_playing(s)

NowPlayingCompleted == \E r \in NpResponses : NowPlayingCallback(r)

NextLoop ==
    \/ LoopScrobble
    \/ CheckFailFlag
    \/ Dispatch
    \/ Confirmed
    \/ Failed
    \/ FailedFatally
    \/ CallbackReinsert
    \/ NowPlaying
    \/ NowPlayingCompleted
    \/ Erase
    \/ Shutdown
    \/ CallbackDestroyed
    \/ ReinsertDestroyed

SpecLoop == InitLoop /\ [][NextLoop]_vars

(***************************************************************************)
(* run_scrobblers and handle_player_event, config_file.cpp lines 476-566:  *)
(* the tracker is driven by the status and the current song read after     *)
(* each player event.  The instances are left out here: what the loop      *)
(* hands to them is recorded in tev.                                       *)
(***************************************************************************)
\* the status and song a reading can return: a player that plays or is
\* paused has a current song
Snapshots ==
    {<<state, song>> \in PlayerStates \X (Songs \cup {NoSong}) :
        state \in {"play", "pause"} => HasSong(song)}

\* lines 543-551: the song playing when the daemon starts
Startup ==
    \E snap \in Snapshots, position \in StartPositions :
        LET state == snap[1]
            song == snap[2]
            tracked == HasSong(song) /\ state = "play"
        IN  /\ tr_pc = "start"
            /\ tr_pc' = "running"
            /\ last' = IF tracked
                       THEN new_song(set_elapsed(last, position), song, now)
                       ELSE last
            /\ reported' = tracked
            /\ heard' = IF tracked THEN position ELSE 0
            /\ endings' = 0
            /\ tev' = TrackerEvent("startup", FALSE, NoEntry, FALSE, 0,
                                   position, tracked)
            /\ UNCHANGED <<now, as20vars, othervars>>

\* time passes between two player events
Tick ==
    \E d \in Ticks :
        /\ tr_pc = "running"
        /\ now + d <= StartTime + MaxTime
        /\ now' = now + d
        /\ heard' = IF reported THEN heard + d ELSE heard
        /\ UNCHANGED <<tr_pc, last, reported, tev, endings, as20vars,
                       othervars>>

\* lines 479-509 for a reading where the tracker or the player has a song
handle_player_event(state, current) ==
    LET told == IF state = "play" THEN play(last, now) ELSE pause(last, now)
        changed == ~SongEquals(current, told.m_song)
        ended == changed /\ HasSong(told.m_song)
        stopped == IF ended THEN pause(told, now) ELSE told
        scr == IF ended
               THEN TrackEntry(stopped.m_song, stopped.m_start,
                               stopped.m_elapsed)
               ELSE NoEntry
        began == changed /\ HasSong(current)
        tracker == IF began THEN new_song(stopped, current, now) ELSE stopped
    IN  /\ last' = tracker
        /\ reported' = (state = "play" /\ SongEquals(current, tracker.m_song))
        /\ heard' = IF began THEN 0 ELSE heard
        /\ endings' = IF began THEN 0
                       ELSE IF ended THEN endings + 1 ELSE endings
        /\ tev' = TrackerEvent("player_event", ended, scr,
                               ended /\ Handed(scr), heard, 0, began)
        /\ UNCHANGED tr_pc

\* line 489 when neither the tracker nor the player has a song:
\* song::operator== calls id() on both, mpd_song_get_id(nullptr), which is
\* not defined; the comparison yields either answer, with nothing to do in
\* both cases, or the process crashes
CompareNoSongs(state) ==
    /\ last' = IF state = "play" THEN play(last, now) ELSE pause(last, now)
    /\ reported' = FALSE
    /\ UNCHANGED <<heard, endings>>
    /\ \E outcome \in {"running", "crashed"} :
          /\ tr_pc' = outcome
          /\ tev' = TrackerEvent(IF outcome = "crashed" THEN "crashed"
                                 ELSE "player_event",
                                 FALSE, NoEntry, FALSE, heard, 0, FALSE)

PlayerEvent ==
    \E snap \in Snapshots :
        /\ tr_pc = "running"
        /\ endings < MaxEndings
        /\ IF HasSong(snap[2]) \/ HasSong(last.m_song)
           THEN handle_player_event(snap[1], snap[2])
           ELSE CompareNoSongs(snap[1])
        /\ UNCHANGED <<now, as20vars, othervars>>

InitTracker ==
    /\ Construct(CHOOSE uri \in Targets : RequestStarts(uri), StorePath,
                 StoreFile(TRUE, <<>>), TRUE)
    /\ NoTracker /\ Unused

NextTracker ==
    \/ Startup
    \/ Tick
    \/ PlayerEvent

SpecTracker == InitTracker /\ [][NextTracker]_vars

(***************************************************************************)
(* check_preconditions applied to entries of every duration and elapsed    *)
(* time up to MaxDuration and MaxHeard.                                    *)
(***************************************************************************)
InitPreconditions ==
    /\ Construct(CHOOSE uri \in Targets : RequestStarts(uri), StorePath,
                 StoreFile(TRUE, <<>>), TRUE)
    /\ Unused
    /\ tr_pc = "check"
    /\ last = state_tracker
    /\ now = StartTime
    /\ reported = FALSE
    /\ heard = 0
    /\ endings = 0
    /\ \E duration \in 0..MaxDuration, elapsed \in 0..MaxHeard :
          tev = TrackerEvent("entry", TRUE,
                             TrackEntry(Song(1, duration), 0, elapsed),
                             FALSE, elapsed, 0, FALSE)

CheckPreconditions ==
    /\ tr_pc = "check"
    /\ tev.kind = "entry"
    /\ tev' = [tev EXCEPT !.kind = "checked",
                          !.handed = do_check_preconditions(tev.scr)]
    /\ UNCHANGED <<tr_pc, last, now, reported, heard, endings, as20vars,
                   othervars>>

NextPreconditions == CheckPreconditions

SpecPreconditions == InitPreconditions /\ [][NextPreconditions]_vars

(***************************************************************************)
(* main: the scrobblers are constructed from the sections of the           *)
(* configuration, run_scrobblers runs tasks over the scrobbler_vec until   *)
(* the flag 'interrupted' is seen or an exception ends it, and main        *)
(* returns through the join of the network thread.  An instance is known   *)
(* by the position of its section; what a call on it does is that of any   *)
(* scrobbler: it returns, with or without a request started, or throws,    *)
(* and it throws whenever its fail flag is set.                            *)
(***************************************************************************)
MaxSections == 2
MaxEvents == 1
MaxRequests == 1

ConfigKeys == {"session", "api_key", "api_secret"}

\* a section of the configuration: its position, its name and the keys it
\* gives a value
config_section(id, name, keys) == [id |-> id, name |-> name, keys |-> keys]

FactoryName == "as20"

SectionKinds ==
    {[name |-> FactoryName, keys |-> k] : k \in SUBSET ConfigKeys}
        \cup {[name |-> "unknown", keys |-> ConfigKeys]}

\* the configurations of at most MaxSections sections
Configs ==
    UNION {{[i \in 1..n |-> config_section(i, c[i].name, c[i].keys)] :
                c \in [1..n -> SectionKinds]} : n \in 0..MaxSections}

has_value(section, key) == key \in section.keys

\* get_factory returns a factory: factories.at(name) does not throw
get_factory(name) == name = FactoryName

\* do_fabrication without the check of the credential pair
do_fabrication_defaults(section) == has_value(section, "session")

\* do_fabrication returns an instance: no section.value(key) throws
do_fabrication(section) ==
    /\ has_value(section, "session")
    /\ (has_value(section, "api_secret") \/ has_value(section, "api_key"))
          => has_value(section, "api_secret") /\ has_value(section, "api_key")

\* run_scrobbler_task whose handler keeps the instance that threw
erase_skipped(vec, i) == vec

\* scrobbler_vec::erase(i)
erase(vec, i) == SubSeq(vec, 1, i - 1) \o SubSeq(vec, i + 1, Len(vec))

InitMain ==
    /\ Construct(CHOOSE uri \in Targets : RequestStarts(uri), StorePath,
                 StoreFile(TRUE, <<>>), TRUE)
    /\ NoTracker
    /\ NoRequest
    /\ NoSign
    /\ NoLock
    /\ \E cfg \in Configs :
          /\ main_pc = "construct"
          /\ sections = cfg
          /\ scrobblers = <<>>
          /\ tasks = <<>>
          /\ iter = 1
          /\ interrupted = FALSE
          /\ signals = "none"
          /\ poisoned = {}
          /\ pending = EmptyBag
          /\ hung = 0
          /\ events = 0
          /\ exit_code = NoExitCode
          /\ failures = EmptyBag
          /\ mev = MainEvent("init", 0, FALSE)
          /\ current_song = NoSong

\* main, one turn of the loop over cfg.sections()
ConstructScrobbler ==
    /\ main_pc = "construct"
    /\ sections # <<>>
    /\ LET sec == Head(sections)
           made == get_factory(sec.name) /\ do_fabrication(sec)
       IN  /\ scrobblers' = IF made THEN Append(scrobblers, sec.id)
                            ELSE scrobblers
           /\ mev' = MainEvent(IF made THEN "constructed" ELSE "setup_failed",
                               sec.id, ~made)
    /\ sections' = Tail(sections)
    /\ UNCHANGED <<main_pc, tasks, iter, interrupted, signals, poisoned,
                   pending, hung, events, exit_code, failures, current_song,
                   notmainvars>>

\* main after the loop: 'no scrobblers set up' and return 1, or the call of
\* run_scrobblers
CheckSetUp ==
    /\ main_pc = "construct"
    /\ sections = <<>>
    /\ IF scrobblers = <<>>
          THEN /\ main_pc' = "joining"
               /\ exit_code' = 1
               /\ mev' = MainEvent("no_scrobblers_set_up", 0, FALSE)
          ELSE /\ main_pc' = "run_scrobblers"
               /\ exit_code' = exit_code
               /\ mev' = MainEvent("set_up", 0, FALSE)
    /\ UNCHANGED <<sections, scrobblers, tasks, iter, interrupted, signals,
                   poisoned, pending, hung, events, failures, current_song,
                   notmainvars>>

\* run_scrobblers up to its loop: the connection is made (or throws), the
\* handler of SIGINT and SIGTERM is armed, and when a song is playing the
\* tracker takes it and the now-playing task is run
RunScrobblers ==
    /\ main_pc = "run_scrobblers"
    /\ \E connected \in BOOLEAN, snap \in Snapshots,
          position \in StartPositions :
          LET song == snap[2]
              playing == HasSong(song) /\ snap[1] = "play"
          IN  IF ~connected
              THEN /\ main_pc' = "closing"
                   /\ mev' = MainEvent("fatal_error", 0, TRUE)
                   /\ UNCHANGED <<signals, tasks, last, current_song>>
              ELSE /\ signals' = "armed"
                   /\ current_song' = song
                   /\ last' = IF playing
                              THEN new_song(set_elapsed(last, position), song,
                                            now)
                              ELSE last
                   /\ tasks' = IF playing THEN <<"now_playing">> ELSE <<>>
                   /\ main_pc' = IF playing THEN "task" ELSE "test"
                   /\ mev' = MainEvent("startup", 0, FALSE)
    /\ iter' = 1
    /\ UNCHANGED <<sections, scrobblers, interrupted, poisoned, pending, hung,
                   events, exit_code, failures, tr_pc, now, reported,
                   heard, tev, endings,
                   as20vars, reqvars, signvars, lockvars>>

\* while (!interrupted)
LoopTest ==
    /\ main_pc = "test"
    /\ main_pc' = IF interrupted THEN "closing" ELSE "tested"
    /\ mev' = MainEvent(IF interrupted THEN "interrupted" ELSE "tested",
                        0, FALSE)
    /\ UNCHANGED <<sections, scrobblers, tasks, iter, interrupted, signals,
                   poisoned, pending, hung, events, exit_code, failures,
                   current_song, notmainvars>>

\* run_idle_mask sends the idle command and waits for its answer
EnterIdle ==
    /\ main_pc = "tested"
    /\ main_pc' = "idle"
    /\ mev' = MainEvent("idle", 0, FALSE)
    /\ UNCHANGED <<sections, scrobblers, tasks, iter, interrupted, signals,
                   poisoned, pending, hung, events, exit_code, failures,
                   current_song, notmainvars>>

\* run_idle_mask returns a player event and handle_player_event begins
\* (lines 479-489): the tracker is told the state; a song that ended gives
\* the scrobble task, a song that began the now-playing task, before which
\* new_song is called.  With no song on either side song::operator== is
\* not defined (see CompareNoSongs): nothing is done or the process crashes
IdleEvent ==
    /\ main_pc = "idle"
    /\ events < MaxEvents
    /\ events' = events + 1
    /\ \E snap \in Snapshots :
          LET told == IF snap[1] = "play" THEN play(last, now)
                      ELSE pause(last, now)
              changed == ~SongEquals(snap[2], told.m_song)
              ended == changed /\ HasSong(told.m_song)
              began == changed /\ HasSong(snap[2])
              stopped == IF ended THEN pause(told, now) ELSE told
          IN  /\ current_song' = snap[2]
              /\ IF HasSong(snap[2]) \/ HasSong(last.m_song)
                 THEN /\ tasks' = (IF ended THEN <<"scrobble">> ELSE <<>>)
                                    \o (IF began THEN <<"now_playing">>
                                        ELSE <<>>)
                      /\ last' = IF began /\ ~ended
                                 THEN new_song(stopped, snap[2], now)
                                 ELSE stopped
                      /\ main_pc' = IF changed THEN "task" ELSE "test"
                      /\ mev' = MainEvent("player_event", 0, FALSE)
                 ELSE /\ tasks' = <<>>
                      /\ last' = told
                      /\ \E crashed \in BOOLEAN :
                            /\ main_pc' = IF crashed THEN "aborted" ELSE "test"
                            /\ mev' = MainEvent(IF crashed THEN "crashed"
                                                ELSE "player_event", 0, FALSE)
    /\ iter' = 1
    /\ UNCHANGED <<sections, scrobblers, interrupted, signals, poisoned,
                   pending, hung, exit_code, failures, tr_pc, now, reported,
                   heard, tev, endings,
                   as20vars, reqvars, signvars, lockvars>>

\* run_idle_mask returns no event: the noidle of the handler ended the wait
IdleWoken ==
    /\ main_pc = "idle"
    /\ signals = "noidle"
    /\ signals' = "handled"
    /\ main_pc' = "test"
    /\ mev' = MainEvent("woken", 0, FALSE)
    /\ UNCHANGED <<sections, scrobblers, tasks, iter, interrupted, poisoned,
                   pending, hung, events, exit_code, failures, current_song,
                   notmainvars>>

\* run_idle_mask throws: check_error found the connection in error
IdleError ==
    /\ main_pc = "idle"
    /\ main_pc' = "closing"
    /\ mev' = MainEvent("fatal_error", 0, TRUE)
    /\ UNCHANGED <<sections, scrobblers, tasks, iter, interrupted, signals,
                   poisoned, pending, hung, events, exit_code, failures,
                   current_song, notmainvars>>

\* run_scrobbler_task, one turn of its loop: task(*i) returns and i moves
\* on, or it throws and the instance is erased, i then being at the next
\* instance.  A call that returns may have started a request.
TaskCall ==
    /\ main_pc = "task"
    /\ iter <= Len(scrobblers)
    /\ LET id == scrobblers[iter]
       IN  \E threw \in (IF id \in poisoned THEN {TRUE} ELSE BOOLEAN),
              started \in BOOLEAN :
              /\ started => ~threw /\ BagCardinality(pending) + hung < MaxRequests
              /\ IF threw
                    THEN /\ scrobblers' = erase(scrobblers, iter)
                         /\ iter' = iter
                         /\ failures' = failures (+) SetToBag({id})
                    ELSE /\ scrobblers' = scrobblers
                         /\ iter' = iter + 1
                         /\ failures' = failures
              /\ pending' = IF started THEN pending (+) SetToBag({id})
                            ELSE pending
              /\ mev' = MainEvent("call", id, threw)
    /\ UNCHANGED <<main_pc, sections, tasks, interrupted, signals, poisoned,
                   hung, events, exit_code, current_song, notmainvars>>

\* a run_scrobbler_task that does not look whether the vector is empty
TaskEndUnchecked ==
    /\ main_pc = "task"
    /\ iter > Len(scrobblers)
    /\ tasks' = Tail(tasks)
    /\ last' = IF Head(tasks) = "scrobble" /\ Tail(tasks) # <<>>
               THEN new_song(last, current_song, now) ELSE last
    /\ main_pc' = IF Tail(tasks) = <<>> THEN "test" ELSE "task"
    /\ mev' = MainEvent("task_end", 0, FALSE)
    /\ iter' = 1
    /\ UNCHANGED <<sections, scrobblers, interrupted, signals, poisoned,
                   pending, hung, events, exit_code, failures, current_song,
                   tr_pc, now, reported, heard, tev, endings,
                   as20vars, reqvars, signvars, lockvars>>

\* run_scrobbler_task after its loop: 'no scrobblers left' is thrown, and
\* caught by run_scrobblers, when the vector is empty; otherwise the caller
\* goes on: after the scrobble task to new_song and the now-playing task
\* when a song began (lines 503-509), else back to the test of the loop
TaskEnd ==
    /\ main_pc = "task"
    /\ iter > Len(scrobblers)
    /\ IF scrobblers = <<>>
          THEN /\ main_pc' = "closing"
               /\ tasks' = <<>>
               /\ last' = last
               /\ mev' = MainEvent("no_scrobblers_left", 0, TRUE)
          ELSE /\ tasks' = Tail(tasks)
               /\ last' = IF Head(tasks) = "scrobble" /\ Tail(tasks) # <<>>
                          THEN new_song(last, current_song, now) ELSE last
               /\ main_pc' = IF Tail(tasks) = <<>> THEN "test" ELSE "task"
               /\ mev' = MainEvent("task_end", 0, FALSE)
    /\ iter' = 1
    /\ UNCHANGED <<sections, scrobblers, interrupted, signals, poisoned,
                   pending, hung, events, exit_code, failures, current_song,
                   tr_pc, now, reported, heard, tev, endings,
                   as20vars, reqvars, signvars, lockvars>>

\* run_scrobblers returns, its loop left or its exception logged: the
\* signal_set is destroyed, which cancels a wait still armed, main reaches
\* the end of its block, where the scrobblers are destroyed, and falls off
\* its end, which returns 0
Close ==
    /\ main_pc = "closing"
    /\ signals' = IF signals = "armed" THEN "cancelled" ELSE signals
    /\ scrobblers' = <<>>
    /\ exit_code' = 0
    /\ main_pc' = "joining"
    /\ mev' = MainEvent("returned", 0, FALSE)
    /\ UNCHANGED <<sections, tasks, iter, interrupted, poisoned, pending,
                   hung, events, failures, current_song, notmainvars>>

\* ~raii_guard: the work guard is reset and the network thread is joined;
\* io_context().run() returns once no operation is outstanding
Join ==
    /\ main_pc = "joining"
    /\ pending = EmptyBag
    /\ hung = 0
    /\ signals \notin {"armed", "cancelled"}
    /\ main_pc' = "exited"
    /\ mev' = MainEvent("exited", 0, FALSE)
    /\ UNCHANGED <<sections, scrobblers, tasks, iter, interrupted, signals,
                   poisoned, pending, hung, events, exit_code, failures,
                   current_song, notmainvars>>

\* the network thread is running
Networking == main_pc \notin {"exited", "aborted"}

\* the handler of SIGINT and SIGTERM, on the network thread: the flag is
\* set and noidle is sent.  The noidle ends the wait of a connection that is
\* idle; a connection that is not idle ignores it.  When send_noidle throws
\* the exception leaves io_context().run() and the process is terminated.
SignalHandler ==
    /\ Networking
    /\ signals = "armed"
    /\ interrupted' = TRUE
    /\ \E sent \in BOOLEAN :
          IF sent
             THEN /\ signals' = IF main_pc = "idle" THEN "noidle" ELSE "lost"
                  /\ main_pc' = main_pc
                  /\ mev' = MainEvent("signal", 0, FALSE)
             ELSE /\ signals' = "lost"
                  /\ main_pc' = "aborted"
                  /\ mev' = MainEvent("signal", 0, TRUE)
    /\ UNCHANGED <<sections, scrobblers, tasks, iter, poisoned, pending, hung,
                   events, exit_code, failures, current_song, notmainvars>>

\* the handler called with operation_aborted, the signal_set destroyed
SignalAborted ==
    /\ Networking
    /\ signals = "cancelled"
    /\ interrupted' = TRUE
    /\ signals' = "aborted"
    /\ mev' = MainEvent("signal_aborted", 0, FALSE)
    /\ UNCHANGED <<main_pc, sections, scrobblers, tasks, iter, poisoned,
                   pending, hung, events, exit_code, failures, current_song,
                   notmainvars>>

\* an outstanding request completes and its callback runs; given a fatal
\* response the callback sets the fail flag of its instance
Completion ==
    /\ Networking
    /\ \E id \in BagToSet(pending), fatal \in BOOLEAN :
          /\ pending' = pending (-) SetToBag({id})
          /\ poisoned' = IF fatal /\ id \in Range(scrobblers)
                         THEN poisoned \cup {id} ELSE poisoned
          /\ mev' = MainEvent("completion", id, fatal)
    /\ UNCHANGED <<main_pc, sections, scrobblers, tasks, iter, interrupted,
                   signals, hung, events, exit_code, failures, current_song,
                   notmainvars>>

\* an outstanding request is one that never completes: no timeout is set on
\* any operation of http_request
Hang ==
    /\ Networking
    /\ \E id \in BagToSet(pending) :
          /\ pending' = pending (-) SetToBag({id})
          /\ mev' = MainEvent("hung", id, FALSE)
    /\ hung' = hung + 1
    /\ UNCHANGED <<main_pc, sections, scrobblers, tasks, iter, interrupted,
                   signals, poisoned, events, exit_code, failures, current_song,
                   notmainvars>>

\* the steps of the player thread that wait for nothing but the thread's
\* turn: all but the return of a player event and the failure of the
\* connection while idle
MainSteps ==
    \/ ConstructScrobbler
    \/ CheckSetUp
    \/ RunScrobblers
    \/ LoopTest
    \/ EnterIdle
    \/ IdleWoken
    \/ TaskCall
    \/ TaskEnd
    \/ Close
    \/ Join

NextMain ==
    \/ MainSteps
    \/ IdleEvent
    \/ IdleError
    \/ SignalHandler
    \/ SignalAborted
    \/ Completion
    \/ Hang

SpecMain == InitMain /\ [][NextMain]_vars

\* both threads are scheduled: the player thread takes the step it is at,
\* a cancelled handler is called and a request that completes has its
\* callback run.  Signals, player events and errors of the connection come
\* when they come.
SpecShutdown ==
    /\ InitMain
    /\ [][NextMain]_vars
    /\ WF_vars(MainSteps)
    /\ WF_vars(SignalAborted)
    /\ WF_vars(Completion)

(***************************************************************************)
(* http_request: a request is made for a URI, run, and carried from stage  *)
(* to stage by the handler of each asynchronous operation, until           *)
(* m_callback is called.                                                   *)
(***************************************************************************)
Schemes ==
    {https, http, ftp, <<"H", "T", "T", "P">>, <<"H", "t", "t", "p", "S">>,
     <<"F", "T", "P">>, <<"h", "t", "t", "p", "x">>, <<"h", "t", "t">>, <<>>}

RequestUris ==
    {[scheme |-> s, is_ip |-> ip, port |-> p] :
        s \in Schemes, ip \in BOOLEAN, p \in {-1, 8080, 99999}}

InitRequest ==
    /\ Construct(CHOOSE uri \in Targets : RequestStarts(uri), StorePath,
                 StoreFile(TRUE, <<>>), FALSE)
    /\ NoTracker
    /\ NoMain
    /\ NoSign
    /\ NoLock
    /\ http_uri \in RequestUris
    /\ http_pc = "none"
    /\ http_proto = "none"
    /\ http_started = <<>>
    /\ http_callback = <<>>

\* m_callback(http, ec)
Callback(ec) ==
    /\ http_callback' = Append(http_callback, ec)
    /\ http_pc' = "done"
    /\ UNCHANGED http_started

\* the asynchronous operation of a stage is started
StartStage(stage) ==
    /\ http_started' = Append(http_started, stage)
    /\ http_pc' = stage
    /\ UNCHANGED http_callback

\* m_proto->connect: https_protocol::connect_impl calls back at once when
\* SSL_set_tlsext_host_name fails
connect ==
    IF http_proto = "https"
    THEN \E sni \in BOOLEAN :
            IF sni THEN StartStage("connect") ELSE Callback("sni")
    ELSE StartStage("connect")

\* http_request::make: the constructor takes its protocol from get_proto,
\* which throws for a scheme it does not know
make ==
    /\ http_pc = "none"
    /\ LET proto == get_proto(http_uri)
       IN  IF proto = "throw"
           THEN http_pc' = "unsupported" /\ UNCHANGED http_proto
           ELSE http_pc' = "made" /\ http_proto' = proto
    /\ UNCHANGED <<http_uri, http_started, http_callback, as20vars, trvars,
                   mainvars, signvars, lockvars>>

\* a run that resolves the host whatever it is
run_always_resolves ==
    /\ http_pc = "made"
    /\ IF ~run_starts(http_uri)
       THEN http_pc' = "port_parse_failed"
            /\ UNCHANGED <<http_started, http_callback>>
       ELSE StartStage("resolve")
    /\ UNCHANGED <<http_uri, http_proto, as20vars, trvars, mainvars,
                   signvars, lockvars>>

\* http_request::run
run ==
    /\ http_pc = "made"
    /\ IF ~run_starts(http_uri)
       THEN http_pc' = "port_parse_failed"
            /\ UNCHANGED <<http_started, http_callback>>
       ELSE IF http_uri.is_ip THEN connect ELSE StartStage("resolve")
    /\ UNCHANGED <<http_uri, http_proto, as20vars, trvars, mainvars,
                   signvars, lockvars>>

\* the handler given to async_resolve
resolve_handler ==
    /\ http_pc = "resolve"
    /\ \E err \in BOOLEAN : IF err THEN Callback("resolve") ELSE connect
    /\ UNCHANGED <<http_uri, http_proto, as20vars, trvars, mainvars,
                   signvars, lockvars>>

\* the handler given to async_connect: connect_callback for http_protocol;
\* for https_protocol connect_callback on an error, do_handshake otherwise
connect_handler ==
    /\ http_pc = "connect"
    /\ \E err \in BOOLEAN :
          IF err THEN Callback("connect")
          ELSE IF http_proto = "https" THEN StartStage("handshake")
          ELSE StartStage("write")
    /\ UNCHANGED <<http_uri, http_proto, as20vars, trvars, mainvars,
                   signvars, lockvars>>

\* the handler given to async_handshake: connect_callback
handshake_handler ==
    /\ http_pc = "handshake"
    /\ \E err \in BOOLEAN :
          IF err THEN Callback("handshake") ELSE StartStage("write")
    /\ UNCHANGED <<http_uri, http_proto, as20vars, trvars, mainvars,
                   signvars, lockvars>>

\* the handler given to m_proto->write
handle_read ==
    /\ http_pc = "write"
    /\ \E err \in BOOLEAN :
          IF err THEN Callback("write") ELSE StartStage("read")
    /\ UNCHANGED <<http_uri, http_proto, as20vars, trvars, mainvars,
                   signvars, lockvars>>

\* the handler given to m_proto->read
read_handler ==
    /\ http_pc = "read"
    /\ \E err \in BOOLEAN : Callback(IF err THEN "read" ELSE "none")
    /\ UNCHANGED <<http_uri, http_proto, as20vars, trvars, mainvars,
                   signvars, lockvars>>

NextRequest ==
    \/ make
    \/ run
    \/ resolve_handler
    \/ connect_handler
    \/ handshake_handler
    \/ handle_read
    \/ read_handler

SpecRequest == InitRequest /\ [][NextRequest]_vars

(***************************************************************************)
(* audioscrobbler_request: two requests with the same secret are assigned  *)
(* the same parameters, each in its own order, and formed.  A string is    *)
(* the sequence of its characters.                                         *)
(***************************************************************************)
MaxParams == 3

\* the characters used here, in the order of their values as bytes
Bytes == <<"A", "[", "a", "k", "s", "x", "y">>

Code(c) == CHOOSE i \in 1..Len(Bytes) : Bytes[i] = c

\* the keys sk, a, aA and a[ and the values x and y
SignKeys == {<<"s", "k">>, <<"a">>, <<"a", "A">>, <<"a", "[">>}
SignValues == {<<"x">>, <<"y">>}
Secrets == {<<"s">>, <<"k">>}

\* std::less<std::string>: the first character that differs decides, and a
\* proper prefix is less
string_less(a, b) ==
    \/ \E i \in 1..Min(Len(a), Len(b)) :
          /\ \A j \in 1..(i - 1) : a[j] = b[j]
          /\ Code(a[i]) < Code(b[i])
    \/ /\ Len(a) < Len(b)
       /\ \A j \in 1..Len(a) : a[j] = b[j]

\* the assignments of a request: at most MaxParams parameters, no key twice
Assignments ==
    UNION {{q \in [1..n -> SignKeys \X SignValues] :
               \A i, j \in 1..n : q[i][1] = q[j][1] => i = j} :
           n \in 0..MaxParams}

\* the same parameters in another order, or in the same
Reordered(q) ==
    {p \in [1..Len(q) -> Range(q)] :
        \A i \in 1..Len(q) : \E j \in 1..Len(q) : p[j] = q[i]}

\* operator[] of a container that keeps the order of insertion
assign_back(params, key, value) ==
    IF \E i \in 1..Len(params) : params[i][1] = key
    THEN [i \in 1..Len(params) |->
             IF params[i][1] = key THEN <<key, value>> ELSE params[i]]
    ELSE Append(params, <<key, value>>)

\* req[key] = value: flat_map::operator[] finds the key or inserts it at its
\* place in the order of the keys, and the value is assigned
assign(params, key, value) ==
    IF \E i \in 1..Len(params) : params[i][1] = key
    THEN [i \in 1..Len(params) |->
             IF params[i][1] = key THEN <<key, value>> ELSE params[i]]
    ELSE LET below == Cardinality({i \in 1..Len(params) :
                                       string_less(params[i][1], key)})
         IN  SubSeq(params, 1, below) \o <<<<key, value>>>>
                 \o SubSeq(params, below + 1, Len(params))

\* the bytes MD5_Update is given for the parameters, in their order in params
RECURSIVE Updates(_)
Updates(params) ==
    IF params = <<>> THEN <<>>
    ELSE Head(params)[1] \o Head(params)[2] \o Updates(Tail(params))

\* the digest of a sequence of bytes, as hexadecimal digits: one digest for
\* each sequence
MD5(bytes) == [md5 |-> bytes]

\* audioscrobbler_request::sign
sign(params, secret) == MD5(Updates(params) \o secret)

\* mpdfm::urlencode, for the characters of Bytes: all but '[' are
\* alphanumeric and kept
urlencode(str) ==
    LET enc(c) == IF c = "[" THEN <<"%", "5", "b">> ELSE <<c>>
        F[i \in 0..Len(str)] == IF i = 0 THEN <<>> ELSE F[i - 1] \o enc(str[i])
    IN  F[Len(str)]

\* audioscrobbler_request::form: the parameters, format=json and api_sig
form(params, secret) ==
    [i \in 1..Len(params) |->
        <<urlencode(params[i][1]), urlencode(params[i][2])>>]
        \o << <<<<"format">>, <<"json">>>>,
              <<<<"api_sig">>, sign(params, secret)>> >>

\* form() has not been called
NotFormed == <<>>

InitSign ==
    /\ Construct(CHOOSE uri \in Targets : RequestStarts(uri), StorePath,
                 StoreFile(TRUE, <<>>), FALSE)
    /\ NoTracker
    /\ NoMain
    /\ NoRequest
    /\ NoLock
    /\ \E q \in Assignments :
          \E p \in Reordered(q) : inserts = <<q, p>>
    /\ m_params = <<<<>>, <<>>>>
    /\ m_api_secret \in Secrets
    /\ body = <<NotFormed, NotFormed>>

\* the next assignment of request r
Assign(r) ==
    /\ body[r] = NotFormed
    /\ Len(m_params[r]) < Len(inserts[r])
    /\ LET next == inserts[r][Len(m_params[r]) + 1]
       IN  m_params' =
              [m_params EXCEPT ![r] = assign(m_params[r], next[1], next[2])]
    /\ UNCHANGED <<inserts, m_api_secret, body, as20vars, trvars,
                   mainvars, reqvars, lockvars>>

\* request r is formed, once all its parameters are assigned
Form(r) ==
    /\ body[r] = NotFormed
    /\ Len(m_params[r]) = Len(inserts[r])
    /\ body' = [body EXCEPT ![r] = form(m_params[r], m_api_secret)]
    /\ UNCHANGED <<inserts, m_params, m_api_secret, as20vars, trvars,
                   mainvars, reqvars, lockvars>>

NextSign == \E r \in 1..2 : Assign(r) \/ Form(r)

SpecSign == InitSign /\ [][NextSign]_vars

(***************************************************************************)
(* The instance with m_cache_mutex: send_scrobbles_coalesced step by step, *)
(* on the player thread after an insertion and on the network thread from  *)
(* the callback of a confirmed request.  A thread takes the mutex when it  *)
(* is free; sending is the to_send of each thread's call.                    *)
(***************************************************************************)
InitMutex ==
    /\ \E uri \in Targets :
          Construct(uri, StorePath, StoreFile(TRUE, <<>>), FALSE)
    /\ NoTracker
    /\ NoMain
    /\ NoRequest
    /\ NoSign
    /\ NoLock

\* do_send_scrobble up to its call of send_scrobbles_coalesced: the entry
\* is inserted under the mutex, which the closing brace of line 285 releases
LockedInsert ==
    /\ pl_pc = "idle"
    /\ submits < MaxSubmits
    /\ m_cache_mutex = "free"
    /\ \E s \in Entries :
          /\ m_cache' = Insert(m_cache, s)
          /\ submitted' = submitted \cup {s}
          /\ ev' = Event("insert", <<s>>, NoResponse, <<>>)
    /\ submits' = submits + 1
    /\ pl_pc' = "enter"
    /\ pl_poisoned' = m_fail_flag
    /\ UNCHANGED <<m_target, m_fail_flag, inflight, net_pc, net_batch,
                   net_resp, confirmed, fatal_count, lifevars, trvars,
                   mainvars, reqvars, signvars, lockvars>>

\* lines 291-293 on thread t, which is at pc: the test of m_fail_flag,
\* before the mutex is taken.  The exception ends the call of the player
\* thread and is swallowed by the callback on the network thread.
TestFlag(t, pc, next) ==
    /\ pc = "enter"
    /\ next = IF m_fail_flag THEN "idle" ELSE "checked"
    /\ ev' = Event(IF m_fail_flag THEN "previously_failed" ELSE "checked",
                   <<>>, NoResponse, <<>>)
    /\ UNCHANGED <<m_cache, m_fail_flag, inflight, m_cache_mutex, sending>>

\* lines 294-314 on thread t: the mutex is taken, and the call returns,
\* releasing it, when the cache is empty; otherwise the batch is extracted
TakeBatch(t, pc, next) ==
    /\ pc = "checked"
    /\ m_cache_mutex = "free"
    /\ IF m_cache = {}
       THEN /\ next = "idle"
            /\ ev' = Event("noop", <<>>, NoResponse, <<>>)
            /\ UNCHANGED <<m_cache, m_cache_mutex, sending>>
       ELSE LET batch == ExtractBatch(m_cache, batch_size)
            IN  /\ m_cache' = Remaining(m_cache, batch)
                /\ sending' = [sending EXCEPT ![t] = batch]
                /\ m_cache_mutex' = t
                /\ next = "extracted"
                /\ ev' = Event("extracted", batch, NoResponse, <<>>)
    /\ UNCHANGED <<m_fail_flag, inflight>>

\* lines 318-323 on thread t: the request is made and run, the lock l of
\* line 294 still in scope; an exception of make or run leaves the function
\* and releases the mutex
StartRequest(t, pc, next) ==
    /\ pc = "extracted"
    /\ m_cache_mutex = t
    /\ IF RequestStarts(m_target)
       THEN /\ inflight' = Started(inflight, sending[t])
            /\ m_cache_mutex' = m_cache_mutex
            /\ next = "started"
            /\ ev' = Event("dispatch", <<>>, NoResponse, sending[t])
       ELSE /\ inflight' = inflight
            /\ m_cache_mutex' = "free"
            /\ next = "idle"
            /\ ev' = Event("sync_throw", <<>>, NoResponse, <<>>)
    /\ UNCHANGED <<m_cache, m_fail_flag, sending>>

\* line 362 on thread t: the function returns and l is destroyed
Return(t, pc, next) ==
    /\ pc = "started"
    /\ m_cache_mutex' = IF m_cache_mutex = t THEN "free" ELSE m_cache_mutex
    /\ next = "idle"
    /\ ev' = Event("returned", <<>>, NoResponse, <<>>)
    /\ UNCHANGED <<m_cache, m_fail_flag, inflight, sending>>

\* send_scrobbles_coalesced, one step of thread t
Coalesce(t, pc, next) ==
    \/ TestFlag(t, pc, next)
    \/ TakeBatch(t, pc, next)
    \/ StartRequest(t, pc, next)
    \/ Return(t, pc, next)

PlayerCoalesce ==
    /\ Coalesce("player", pl_pc, pl_pc')
    /\ UNCHANGED <<m_target, pl_poisoned, net_pc, net_batch, net_resp,
                   submitted, confirmed, fatal_count, submits, lifevars,
                   trvars, mainvars, reqvars, signvars>>

NetworkCoalesce ==
    /\ Coalesce("network", net_pc, net_pc')
    /\ UNCHANGED <<m_target, pl_pc, pl_poisoned, net_batch, net_resp,
                   submitted, confirmed, fatal_count, submits, lifevars,
                   trvars, mainvars, reqvars, signvars>>

\* lines 323-345: the callback of a request is called with a response; a
\* confirmation goes on to send_scrobbles_coalesced, a fatal response to the
\* block that sets the flag, any other to the handler that re-inserts
CallbackBegins ==
    /\ net_pc = "idle"
    /\ \E batch \in BagToSet(inflight), r \in Responses :
          /\ inflight' = Completed(inflight, batch)
          /\ net_batch' = batch
          /\ net_resp' = r
          /\ ev' = Event("callback", batch, r, <<>>)
          /\ net_pc' = CASE Classify(r) = "confirm" -> "enter"
                         [] Classify(r) = "fatal" -> "flag"
                         [] OTHER -> "catch"
          /\ confirmed' = IF Classify(r) = "confirm"
                          THEN confirmed \cup Range(batch) ELSE confirmed
          /\ fatal_count' = IF Classify(r) = "fatal"
                            THEN fatal_count + 1 ELSE fatal_count
    /\ UNCHANGED <<m_target, m_cache, m_fail_flag, pl_pc, pl_poisoned,
                   submitted, submits, lifevars, trvars, mainvars, reqvars,
                   signvars, lockvars>>

\* lines 333-336: the flag is set under the mutex
SetFailFlag ==
    /\ net_pc = "flag"
    /\ m_cache_mutex = "free"
    /\ m_fail_flag' = TRUE
    /\ net_pc' = "catch"
    /\ ev' = Event("flag", net_batch, net_resp, <<>>)
    /\ UNCHANGED <<m_target, m_cache, inflight, pl_pc, pl_poisoned, net_batch,
                   net_resp, submitted, confirmed, fatal_count, submits,
                   lifevars, trvars, mainvars, reqvars, signvars, lockvars>>

\* lines 354-360: the batch is re-inserted under the mutex
Reinsert ==
    /\ net_pc = "catch"
    /\ m_cache_mutex = "free"
    /\ m_cache' = InsertRange(m_cache, net_batch)
    /\ net_pc' = "idle"
    /\ ev' = Event("reinsert", net_batch, net_resp, <<>>)
    /\ UNCHANGED <<m_target, m_fail_flag, inflight, pl_pc, pl_poisoned,
                   net_batch, net_resp, submitted, confirmed, fatal_count,
                   submits, lifevars, trvars, mainvars, reqvars, signvars,
                   lockvars>>

NextMutex ==
    \/ LockedInsert
    \/ PlayerCoalesce
    \/ NetworkCoalesce
    \/ CallbackBegins
    \/ SetFailFlag
    \/ Reinsert

SpecMutex == InitMutex /\ [][NextMutex]_vars

(***************************************************************************)
(* Properties.                                                             *)
(***************************************************************************)
TypeOK ==
    /\ m_cache \subseteq Entries
    /\ m_fail_flag \in BOOLEAN
    /\ pl_pc \in {"idle", "inserted", "checked", "threw", "terminated",
                 "enter", "extracted", "started"}
    /\ alive \in BOOLEAN
    /\ np_inflight \in Nat
    /\ tr_pc \in {"start", "running", "crashed", "check"}
    /\ last.m_paused \in BOOLEAN
    /\ now \in StartTime..(StartTime + MaxTime)
    /\ net_pc \in {"idle", "reinsert", "enter", "checked", "extracted",
                  "started", "flag", "catch"}
    /\ m_cache_mutex \in {"free", "player", "network"}
    /\ main_pc \in {"start", "construct", "run_scrobblers", "test", "tested",
                   "idle", "task", "closing", "joining", "exited", "aborted"}
    /\ http_pc \in Stages \cup {"none", "made", "unsupported",
                                 "port_parse_failed", "done"}

\* no call of do_send_scrobble is running, no callback is running and no
\* request is in flight
Quiescent == pl_pc = "idle" /\ net_pc = "idle" /\ inflight = EmptyBag

\* the step just taken is the first step of a completion callback
CallbackStep == ev'.kind = "callback"

\* every entry of the batch is resident after the step and no resident entry
\* was dropped by it
Restored(batch) ==
    /\ m_cache \subseteq m_cache'
    /\ \A k \in 1..Len(batch) : Contains(m_cache', batch[k])

\* after the step the cache holds what it held and the batch, nothing else
ExactlyRestored(batch) ==
    /\ Restored(batch)
    /\ \A e \in m_cache' : Contains(m_cache, e) \/ Contains(Range(batch), e)

IsTransportError(r) == r.ec \in Stages
IsUnparsable(r) == r.ec = "none" /\ ~r.parses
IsConfirmation(r) == r.ec = "none" /\ r.parses /\ r.message = ""
IsRecoverable(r) ==
    r.ec = "none" /\ r.parses /\ r.message # "" /\ r.error \in {11, 16}
IsFatal(r) ==
    r.ec = "none" /\ r.parses /\ r.message # "" /\ r.error \notin {11, 16}

\* C1: whenever nothing is in flight, the entries confirmed by the remote
\* together with the entries resident in the cache are the entries submitted,
\* up to entries collapsed because they share a timestamp.
C1_NoSilentLoss ==
    Quiescent =>
        /\ \A e \in submitted : Contains(confirmed, e) \/ Contains(m_cache, e)
        /\ confirmed \cup m_cache \subseteq submitted

\* C2: at most one scrobble batch request is in flight at any time.
C2_OneBatchInFlight == BagCardinality(inflight) <= 1

\* C3: a response with a non-empty message and an error code other than 11
\* and 16 sets m_fail_flag, and the callback re-inserts every entry of the
\* batch before it ends.
C3_FatalRestoresAndPoisons ==
    [][ /\ (CallbackStep /\ IsFatal(ev'.response)) =>
              (m_fail_flag' /\ net_pc' = "reinsert" /\ net_batch' = ev'.batch)
        /\ (ev'.kind = "reinsert" /\ IsFatal(ev'.response)) =>
              (m_fail_flag' /\ net_pc' = "idle" /\ Restored(ev'.batch)) ]_vars

C3_Witness ==
    /\ ev.kind = "reinsert"
    /\ IsFatal(ev.response)
    /\ ev.batch # <<>>
    /\ m_fail_flag
    /\ Range(ev.batch) \subseteq m_cache

\* C4 as claimed: a response body that fails to parse re-inserts the batch
\* and sets m_fail_flag.
C4_ParseFailurePoisons ==
    [][ (CallbackStep /\ IsUnparsable(ev'.response)) =>
            (Restored(ev'.batch) /\ m_fail_flag') ]_vars

\* C4 as amended: a response body that fails to parse is handled as a
\* recoverable failure: the batch is re-inserted and m_fail_flag keeps its
\* value.
C4_ParseFailureRecoverable ==
    [][ (CallbackStep /\ IsUnparsable(ev'.response)) =>
            /\ Restored(ev'.batch)
            /\ m_fail_flag' = m_fail_flag
            /\ net_pc' = "idle" ]_vars

C4_Witness ==
    /\ ev.kind = "callback"
    /\ IsUnparsable(ev.response)
    /\ Range(ev.batch) \subseteq m_cache
    /\ ev.batch # <<>>
    /\ ~m_fail_flag

\* C5: a response with a non-empty message and error code 11 or 16 leaves
\* the cache holding the entries of the batch in addition to what it held,
\* and does not change m_fail_flag.
C5_RecoverableRestores ==
    [][ (CallbackStep /\ IsRecoverable(ev'.response)) =>
            /\ ExactlyRestored(ev'.batch)
            /\ m_fail_flag' = m_fail_flag
            /\ net_pc' = "idle" ]_vars

C5_Witness ==
    /\ ev.kind = "callback"
    /\ IsRecoverable(ev.response)
    /\ ev.response.error = 11
    /\ Range(ev.batch) \subseteq m_cache
    /\ m_cache # Range(ev.batch)
    /\ ~m_fail_flag

\* C6: a transport error at any stage re-inserts the batch and does not set
\* m_fail_flag.
C6_TransportErrorRecoverable ==
    [][ (CallbackStep /\ IsTransportError(ev'.response)) =>
            /\ Restored(ev'.batch)
            /\ m_fail_flag' = m_fail_flag
            /\ net_pc' = "idle" ]_vars

C6_Witness ==
    /\ ev.kind = "callback"
    /\ ev.response.ec = "handshake"
    /\ Range(ev.batch) \subseteq m_cache
    /\ ev.batch # <<>>
    /\ ~m_fail_flag

\* C7: once m_fail_flag is true, a drain attempt fails with the 'previously
\* failed' error and starts no request: a do_send_scrobble begun with the
\* flag set never gets past the test of the flag and ends with that error,
\* and a callback's continued drain starts no request.
C7_PoisonedFailsFast ==
    [][ /\ (pl_poisoned' /\ pl_pc' # "idle") => pl_pc' = "inserted"
        /\ (m_fail_flag /\ pl_pc = "inserted" /\ pl_pc' # "inserted") =>
              /\ ev'.kind = "previously_failed"
              /\ pl_pc' = "idle"
              /\ inflight' = inflight
        /\ (m_fail_flag /\ CallbackStep) =>
              /\ ev'.started = <<>>
              /\ inflight' = Completed(inflight, ev'.batch) ]_vars

C7_Witness ==
    /\ ev.kind = "previously_failed"
    /\ pl_poisoned
    /\ m_fail_flag
    /\ pl_pc = "idle"

\* C8: at most one response of an instance is classified fatal.
C8_AtMostOneFatal == fatal_count <= 1

\* C9: when the remote confirms a batch, the entries of that batch are
\* confirmed and not re-inserted, and every entry the step takes out of the
\* cache is in the request the continued drain starts.
C9_ConfirmRemovesExactlyBatch ==
    [][ (CallbackStep /\ IsConfirmation(ev'.response)) =>
            /\ confirmed' = confirmed \cup Range(ev'.batch)
            /\ m_cache' \subseteq m_cache
            /\ net_pc' = "idle"
            /\ Range(ev'.started) = m_cache \ m_cache'
            /\ inflight' =
                  IF ev'.started = <<>>
                  THEN Completed(inflight, ev'.batch)
                  ELSE Started(Completed(inflight, ev'.batch), ev'.started) ]_vars

C9_Witness ==
    /\ ev.kind = "callback"
    /\ IsConfirmation(ev.response)
    /\ Range(ev.batch) \subseteq confirmed
    /\ m_cache # {}
    /\ Range(ev.batch) \cap m_cache = {}

\* C10: no request carries more than 50 entries, and a drain started with
\* 120 pending entries that the remote keeps confirming issues three
\* requests, one after the other, of 50, 50 and 20 entries: the first two
\* are each in flight alone with 50 entries, the third with 20, and then
\* nothing is left.
C10_BatchCap ==
    /\ \A b \in BagToSet(inflight) : Len(b) <= 50
    /\ Len(ev.started) <= 50
    /\ (submits = 1 /\ Cardinality(submitted) = 120 /\ pl_pc = "idle"
        /\ RequestStarts(m_target)) =>
          /\ Cardinality(confirmed) \in {0, 50, 100, 120}
          /\ Cardinality(confirmed) \in {0, 50} =>
                /\ BagCardinality(inflight) = 1
                /\ \A b \in BagToSet(inflight) : Len(b) = 50
                /\ Cardinality(m_cache) = 70 - Cardinality(confirmed)
          /\ Cardinality(confirmed) = 100 =>
                /\ BagCardinality(inflight) = 1
                /\ \A b \in BagToSet(inflight) : Len(b) = 20
                /\ m_cache = {}
          /\ Cardinality(confirmed) = 120 => (Quiescent /\ m_cache = {})

C10_Witness ==
    /\ Quiescent
    /\ Cardinality(confirmed) = 120
    /\ ev.kind = "callback"
    /\ Len(ev.batch) = 20
    /\ m_cache = {}

\* the entries accepted and not confirmed once the request carrying batch has
\* completed: resident in the cache, in another request in flight, or held
\* by a callback between its two critical sections
Unconfirmed(batch) ==
    m_cache
    \cup UNION {Range(b) : b \in BagToSet(Completed(inflight, batch))}
    \cup Range(net_batch)

\* C11: no entry is confirmed while an entry with a smaller timestamp that
\* the instance accepted is still unconfirmed, resident in the cache or in
\* flight.
C11_NoOutOfOrderConfirmation ==
    [][ (CallbackStep /\ IsConfirmation(ev'.response)) =>
            \A e \in Range(ev'.batch) : \A f \in Unconfirmed(ev'.batch) :
                ~ts_compare(f, e) ]_vars

\* C12: when the vector is destroyed at shutdown and the instance writes its
\* store, the file holds every entry that was accepted and not confirmed,
\* the entries of a request still in flight included.
C12_ShutdownPersistsUnconfirmed ==
    (ev.kind = "shutdown" /\ store.written) =>
        \A e \in submitted :
            Contains(confirmed, e) \/ Contains(Range(store.entries), e)

\* the steps of a now-playing call, and of its completion callback
NpCallKinds == {"now_playing", "np_previously_failed", "np_sync_throw"}
NpKinds == NpCallKinds \cup {"np_callback"}

\* the step just taken is the destructor
DestructorStep == ev'.kind \in {"erased", "shutdown"}

\* C13: an instance constructed from a store that is missing or corrupt is
\* alive with an empty cache, and a destructor that cannot write the store
\* returns normally and leaves the file as it was; the player thread goes
\* on in both cases.
C13_PersistenceErrorsNotFatal ==
    /\ ev.kind = "init_ignored" =>
          (alive /\ m_cache = {} /\ pl_pc = "idle" /\ ~m_fail_flag)
    /\ ~alive => pl_pc = "idle"

C13_Witness ==
    /\ ~alive
    /\ m_path # NoStorePath
    /\ ~store.written
    /\ submitted # {}
    /\ ev.kind = "shutdown"

\* C14: a now-playing call made when a recoverable failure has just left
\* entries in the cache starts a request carrying pending entries.
C14_NowPlayingStartsDrain ==
    [][ ( /\ ev.kind = "callback"
          /\ IsRecoverable(ev.response) \/ IsTransportError(ev.response)
          /\ m_cache # {}
          /\ inflight = EmptyBag
          /\ ev'.kind = "now_playing" ) =>
            (ev'.started # <<>> /\ inflight' # inflight) ]_vars

\* C15: a now-playing call and its completion callback, whatever the
\* response, leave the cache, the fail flag, the scrobble requests in flight
\* and the store as they were, and the callback starts no request.
C15_NowPlayingLeavesOutbox ==
    [][ ev'.kind \in NpKinds =>
            /\ m_cache' = m_cache
            /\ m_fail_flag' = m_fail_flag
            /\ inflight' = inflight
            /\ store' = store
            /\ ev'.started = <<>>
            /\ ev'.kind = "np_callback" => np_inflight' = np_inflight - 1 ]_vars

C15_Witness ==
    /\ ev.kind = "np_callback"
    /\ NpLogged(ev.response)
    /\ ev.response.ec = "none"
    /\ m_cache # {}
    /\ ~m_fail_flag
    /\ np_inflight = 0
    /\ alive

\* C16: a now-playing call never leaves by exception, whatever the state of
\* the instance, and the instance is never erased from the vector after a
\* now-playing call.
C16_NowPlayingNeverEscalates ==
    [][ /\ ev'.kind \in NpCallKinds => pl_pc' = "idle"
        /\ ev.kind \in NpCallKinds => ev'.kind # "erased" ]_vars

\* the threshold of the claims: duration above 30 seconds and elapsed above
\* the smaller of 240 and half the duration, halved as an integer
OverThreshold(duration, elapsed) ==
    duration > 30 /\ elapsed > Min(240, duration \div 2)

\* C17: the track that ended is handed to scrobble() exactly when its entry
\* has duration > 30 and elapsed > min(240, duration / 2); no entry is
\* handed over when no track ended.
C17_ScrobbleIffPreconditions ==
    /\ tev.ended => (tev.handed <=> OverThreshold(tev.scr.duration,
                                                  tev.scr.elapsed))
    /\ ~tev.ended => ~tev.handed

C17_Witness ==
    /\ tev.kind = "player_event"
    /\ tev.ended
    /\ tev.handed
    /\ tev.scr.duration = 40
    /\ tev.scr.elapsed = 25

\* the entry just checked has this duration and elapsed time
Checked(duration, elapsed) ==
    /\ tev.kind = "checked"
    /\ tev.scr.duration = duration
    /\ tev.scr.elapsed = elapsed

\* C18 as claimed: a 20-second track is never scrobbled, a 300-second track
\* heard for 239 seconds is not scrobbled and heard for 241 seconds is, a
\* 40-second track heard for 21 seconds is.
C18_ThresholdExamples ==
    /\ (tev.kind = "checked" /\ tev.scr.duration = 20) => ~tev.handed
    /\ Checked(300, 239) => ~tev.handed
    /\ Checked(300, 241) => tev.handed
    /\ Checked(40, 21) => tev.handed

\* C18 as amended: a 20-second track is never scrobbled, a 300-second track
\* heard for 150 seconds is not scrobbled and heard for 151, 239 or 241
\* seconds is, a 40-second track heard for 21 seconds is.
C18_ThresholdExamplesAmended ==
    /\ (tev.kind = "checked" /\ tev.scr.duration = 20) => ~tev.handed
    /\ Checked(300, 150) => ~tev.handed
    /\ Checked(300, 151) => tev.handed
    /\ Checked(300, 239) => tev.handed
    /\ Checked(300, 241) => tev.handed
    /\ Checked(40, 21) => tev.handed

C18_Witness == Checked(300, 239) /\ tev.handed

\* C19: the elapsed time of the entry of a track that ended is the time the
\* player was reported playing that track, the position at startup
\* included.
C19_ElapsedIsPlayedTime ==
    tev.ended => tev.scr.elapsed = tev.played

\* C20: when the daemon starts while a song plays at position e, the
\* tracker's elapsed time for that song is e.
C20_StartupElapsed ==
    (tev.kind = "startup" /\ tev.now_playing) =>
        last.m_elapsed = tev.position

\* the step is a turn of run_scrobbler_task that erased instance id
Removed(id) ==
    /\ main_pc = "task"
    /\ id \in Range(scrobblers)
    /\ id \notin Range(scrobblers')

C22_RemovalIsFinalAndFatal ==
    [][/\ main_pc \in {"task", "test", "tested", "idle"} =>
             Range(scrobblers') \subseteq Range(scrobblers)
       /\ mev'.kind = "call" => mev'.id \in Range(scrobblers)
       /\ mev'.kind = "task_end" =>
             (scrobblers' = scrobblers /\ scrobblers # <<>>)
       /\ (main_pc = "closing" /\ scrobblers = <<>>) => events' = events
       /\ (main_pc = "closing" /\ scrobblers = <<>> /\ main_pc' = "joining")
             => exit_code' # 0]_vars

\* a section do_fabrication cannot make an instance of: no session, or one
\* of api_key and api_secret without the other
Unusable(section) ==
    \/ ~has_value(section, "session")
    \/ has_value(section, "api_key") # has_value(section, "api_secret")

\* C23: a section without session, or with exactly one of api_key and
\* api_secret, adds no instance and main goes on to the next section, a
\* usable section adds its instance, and with no instance at the end of the
\* sections main returns 1 without calling run_scrobblers.
C23_UnusableSectionDropped ==
    [][/\ (main_pc = "construct" /\ sections # <<>>) =>
             /\ sections' = Tail(sections)
             /\ main_pc' = "construct"
             /\ Unusable(Head(sections)) => scrobblers' = scrobblers
             /\ (~Unusable(Head(sections))
                   /\ Head(sections).name = FactoryName) =>
                    scrobblers' = Append(scrobblers, Head(sections).id)
       /\ (main_pc = "construct" /\ sections = <<>> /\ scrobblers = <<>>) =>
             (exit_code' = 1 /\ main_pc' = "joining")
       /\ exit_code' = 1 => (signals' = "none" /\ events' = 0)]_vars

C23_Witness ==
    /\ mev = MainEvent("setup_failed", 2, TRUE)
    /\ scrobblers = <<1>>
    /\ sections = <<>>

\* the handler of SIGINT or SIGTERM has run
Signalled == signals \in {"noidle", "lost", "handled"}

\* C26: once the handler of SIGINT or SIGTERM has run, the dispatch loop
\* leaves its wait and the process exits, whatever the interleaving and
\* whether or not an outstanding request ever completes.
C26_ShutdownTerminates ==
    Signalled ~> main_pc \in {"exited", "aborted"}

\* the schemes of Schemes that are neither http nor https, whatever the case
\* of their letters
UnsupportedSchemes ==
    {ftp, <<"F", "T", "P">>, <<"h", "t", "t", "p", "x">>, <<"h", "t", "t">>,
     <<>>}

\* C24: a request for a URI whose scheme is neither http nor https, letter
\* case apart, throws 'unsupported protocol' when it is made, and no stage
\* of it is ever started nor its callback called; a request for http or
\* https, in any letter case, is made with that protocol.
C24_UnsupportedSchemeFailsAtCreation ==
    /\ (http_uri.scheme \in UnsupportedSchemes /\ http_pc # "none") =>
          /\ http_pc = "unsupported"
          /\ http_started = <<>>
          /\ http_callback = <<>>
    /\ (http_uri.scheme \notin UnsupportedSchemes /\ http_pc # "none") =>
          /\ http_pc # "unsupported"
          /\ http_proto = IF Len(http_uri.scheme) = Len(https)
                          THEN "https" ELSE "http"

C24_Witness ==
    /\ http_uri.scheme = <<"F", "T", "P">>
    /\ http_pc = "unsupported"

\* the keys of SignKeys in ascending order
KeyOrder == <<<<"a">>, <<"a", "A">>, <<"a", "[">>, <<"s", "k">>>>

Rank(key) == CHOOSE i \in 1..Len(KeyOrder) : KeyOrder[i] = key

\* the api_sig parameter of a formed request, its last
ApiSig(formed) == formed[Len(formed)][2]

\* C25: two requests with the same secret and the same parameters, assigned
\* in different orders, are formed with the same signature, and it is the
\* digest of the keys and values of the assigned parameters in ascending
\* order of the keys, followed by the secret: format and api_sig are not in
\* it.
C25_SignatureIndependentOfOrder ==
    (body[1] # NotFormed /\ body[2] # NotFormed) =>
        /\ ApiSig(body[1]) = ApiSig(body[2])
        /\ \E q \in Reordered(inserts[1]) :
              /\ \A i, j \in 1..Len(q) :
                    i < j => Rank(q[i][1]) < Rank(q[j][1])
              /\ ApiSig(body[1]) = MD5(Updates(q) \o m_api_secret)

C25_Witness ==
    /\ body[1] # NotFormed
    /\ body[2] # NotFormed
    /\ Len(inserts[1]) = 3
    /\ inserts[1][1][1] = <<"s", "k">>
    /\ inserts[2][1][1] = <<"a", "[">>
    /\ inserts[1] # inserts[2]

\* C27: m_cache_mutex is not held when a request is started: in
\* send_scrobbles_coalesced it is released before the request is run and
\* taken again only in the completion callback.
C27_MutexFreeAtDispatch ==
    [][ev'.kind = "dispatch" =>
           (m_cache_mutex = "free" /\ m_cache_mutex' = "free")]_vars

\* C28: when making or running the request throws after the batch was
\* extracted, the extracted entries are back in the cache once the call has
\* ended.
C28_SyncThrowRestores ==
    [][ev'.kind = "sync_throw" => m_cache \subseteq m_cache']_vars

FailureHandled ==
    ev.kind = "callback" /\ Classify(ev.response) \in {"transport", "recoverable"}

\* C30: after a recoverable remote failure or a transport error the instance
\* issues no scrobble request on its own: the first request started after
\* the failure is started by the player thread's call of an external
\* submission, not by the network thread.
C30_NoAutoRetry ==
    [][(FailureHandled /\ ev'.started # <<>>) => ev'.kind = "dispatch"]_vars

\* C32: m_fail_flag is monotonic: no step of the instance takes it from
\* true to false.
C32_FailFlagMonotonic == [][m_fail_flag => m_fail_flag']_vars

\* the flag is set and the instance has gone on: the batch is back in the
\* cache and a later call has been made on the instance
C32_Witness ==
    /\ m_fail_flag
    /\ net_pc = "idle"
    /\ ev.kind \in {"insert", "previously_failed"}

\* no two resident entries have the same timestamp
UniqueTimestamps(c) ==
    \A a \in c, b \in c : a.timestamp = b.timestamp => a = b

\* the step just taken inserted into the cache: the insert of
\* do_send_scrobble or the re-insertion of a batch by a callback
InsertionStep ==
    \/ ev'.kind \in {"insert", "reinsert"}
    \/ ev'.kind = "callback" /\ ev'.started = <<>> /\ ~IsConfirmation(ev'.response)
       /\ ~IsFatal(ev'.response)

\* C33: the cache never holds two entries with the same timestamp, and an
\* insertion (of a submitted entry or of a failed batch) keeps every
\* resident entry and adds no entry whose timestamp is resident.
C33_OneEntryPerTimestamp ==
    /\ UniqueTimestamps(m_cache)
    /\ [][/\ UniqueTimestamps(m_cache')
          /\ InsertionStep =>
                /\ m_cache \subseteq m_cache'
                /\ \A e \in m_cache' \ m_cache, f \in m_cache :
                       e.timestamp # f.timestamp]_vars

\* an entry was submitted whose timestamp was resident with another track:
\* the cache still holds the resident entry and not the submitted one
C33_Witness ==
    /\ ev.kind = "insert"
    /\ ev.batch[1] \notin m_cache
    /\ \E f \in m_cache : f.timestamp = ev.batch[1].timestamp

\* the entry of the latest call of do_send_scrobble made by the dispatch
\* loop, whose calls carry timestamps in ascending order
LastSubmitted ==
    CHOOSE e \in submitted : \A f \in submitted : f.timestamp <= e.timestamp

\* C36: when do_send_scrobble is called with m_fail_flag set, its entry is
\* resident in the cache from the insert on, through the 'previously
\* failed' exception, and is in the file the destructor writes.
C36_PoisonedSubmitIsPersisted ==
    pl_poisoned =>
        /\ Contains(m_cache, LastSubmitted)
        /\ pl_pc # "inserted" => (pl_pc = Thrown \/ ~alive)
        /\ store.written => Contains(Range(store.entries), LastSubmitted)

\* the call on the poisoned instance has thrown, the instance was erased and
\* its destructor wrote the entry of that call next to the older one
C36_Witness ==
    /\ pl_poisoned
    /\ ~alive
    /\ ev.kind = "erased"
    /\ store.written
    /\ Len(store.entries) = 2
    /\ store.entries[2] = LastSubmitted

\* C37: the test of m_fail_flag and the extraction are one atomic step with
\* respect to the callbacks: no batch is extracted or dispatched in a state
\* where m_fail_flag is true.
C37_NoDispatchWhenPoisoned ==
    [][ev'.kind \in {"extracted", "dispatch"} => ~m_fail_flag]_vars

\* s is an initial part of t
IsPrefix(s, t) ==
    Len(s) <= Len(t) /\ \A k \in 1..Len(s) : s[k] = t[k]

\* the stages of a request that meets no failure, in order
Lifecycle ==
    (IF http_uri.is_ip THEN <<>> ELSE <<"resolve">>)
    \o <<"connect">>
    \o (IF http_proto = "https" THEN <<"handshake">> ELSE <<>>)
    \o <<"write", "read">>

\* C39: the stages of a request that was run are started in the order
\* resolve (not for an IP literal), connect, handshake (https only), write,
\* read; m_callback is called once the request is done and not before, one
\* time, with the error of the stage that failed, after which no stage is
\* started, or with the result of the read.
C39_RequestLifecycle ==
    /\ IsPrefix(http_started, Lifecycle)
    /\ Len(http_callback) = (IF http_pc = "done" THEN 1 ELSE 0)
    /\ http_pc = "done" =>
          LET ec == http_callback[1]
          IN  CASE ec = "none" -> http_started = Lifecycle
                [] ec = "sni" ->
                      /\ http_proto = "https"
                      /\ Append(http_started, "connect") \in
                            {SubSeq(Lifecycle, 1, n) : n \in 1..2}
                [] OTHER ->
                      /\ http_started # <<>>
                      /\ http_started[Len(http_started)] = ec

\* a request to an IP literal over https went through every stage
C39_Witness ==
    /\ http_pc = "done"
    /\ http_callback = <<"none">>
    /\ http_uri.is_ip
    /\ http_started = <<"connect", "handshake", "write", "read">>

\* C34: after a track change the tracker follows the state the player
\* reported: when the new track began in an event that did not report it
\* playing, the tracker is paused, and a track that was never reported
\* playing has no elapsed time.
C34_NewTrackFollowsPlayerState ==
    /\ (tev.kind = "player_event" /\ tev.now_playing /\ ~reported) =>
          last.m_paused
    /\ (tev.kind = "player_event" /\ HasSong(last.m_song) /\ heard = 0) =>
          last.m_elapsed = 0

\* C35: a tracked track ends at most once: the track-ended task, with its
\* scrobble check and submission, runs at most one time for the song the
\* tracker holds, whatever events follow, a stop of the player included.
C35_TrackEndsOnce == endings <= 1

\* the task at the head of tasks is being run and its loop is over with no
\* instance left
ScrobbleEmptiedSet ==
    /\ main_pc = "task"
    /\ Head(tasks) = "scrobble"
    /\ iter > Len(scrobblers)
    /\ scrobblers = <<>>

\* C40: on a track change with a previous track the instances are called
\* for the scrobble task while the tracker still holds the finished track,
\* and for the now-playing task only once the tracker holds the new one,
\* the scrobble task being over; when the scrobble task leaves no instance
\* the tracker keeps the finished track and the now-playing task is not
\* begun: the tasks of the event are dropped when the player thread goes
\* on, and once it is closing no instance is called and the tracker does
\* not change
C40_ScrobbleBeforeNewTrack ==
    [][/\ (mev'.kind = "call" /\ Head(tasks) = "scrobble") =>
             /\ HasSong(last.m_song)
             /\ ~SongEquals(last.m_song, current_song)
             /\ last.m_paused
             /\ last' = last
       /\ (mev'.kind = "call" /\ Head(tasks) = "now_playing") =>
             /\ Tail(tasks) = <<>>
             /\ SongEquals(last.m_song, current_song)
       /\ ScrobbleEmptiedSet =>
             /\ last' = last
             /\ tasks' \in {tasks, <<>>}
             /\ main_pc' \in {"task", "closing", "aborted"}
       /\ main_pc \in {"closing", "joining", "exited", "aborted"} =>
             /\ mev'.kind # "call"
             /\ last' = last]_vars

\* the scrobble task of a track change to a new song has left no instance:
\* the tracker still holds the song that ended
C40_Witness ==
    /\ mev.kind = "no_scrobblers_left"
    /\ HasSong(current_song)
    /\ HasSong(last.m_song)
    /\ ~SongEquals(last.m_song, current_song)
    /\ main_pc = "closing"

\* C38: no completion callback of a scrobble request runs on an instance
\* that was destroyed, be it erased by run_scrobbler_task or destroyed with
\* the vector at shutdown while its request was in flight
C38_NoCallbackAfterDestruction == ~(~alive /\ ev.kind = "callback_destroyed")

\* the entries of c that are older than timestamp ts
Older(c, ts) == {f \in c : f.timestamp < ts}

\* C31: a request carries the min(50, n) entries with the smallest
\* timestamps of the n entries resident when its batch is extracted, in
\* ascending order of timestamp from index 0 on: the parameter timestamp[i]
\* is the timestamp of the resident entry that exactly i resident entries
\* are older than
C31_OldestFirstBatch ==
    [][ev'.started # <<>> =>
          LET n == Cardinality(m_cache)
              params == TimestampParams(ev'.started)
          IN  /\ Len(ev'.started) = Min(batch_size, n)
              /\ Range(ev'.started) \subseteq m_cache
              /\ DOMAIN params = 0..(Min(batch_size, n) - 1)
              /\ \A i \in DOMAIN params :
                    /\ ev'.started[i + 1].timestamp = params[i]
                    /\ Cardinality(Older(m_cache, params[i])) = i]_vars

\* a request carries the 50 oldest of the 120 entries that were resident,
\* the 70 left in the cache being newer
C31_Witness ==
    /\ ev.kind = "dispatch"
    /\ Len(ev.started) = batch_size
    /\ Cardinality(m_cache) = 70
    /\ \A e \in m_cache : e.timestamp > ev.started[batch_size].timestamp

====
